---- MODULE Spec2Model ----
(***************************************************************************)
(* A model of mcp-sentry: the identifier normalizer (extractIssueId), the  *)
(* query-URL normalizer (extractIssuesApiUrl) and the issue-list           *)
(* aggregator (SentryIssuesListData.findMostTriggeredIssue).               *)
(*                                                                         *)
(* Strings are sequences of one-character strings, so that parsing,        *)
(* splitting, percent-decoding and form-encoding are computed character by *)
(* character as the JavaScript runtime computes them.                      *)
(***************************************************************************)
EXTENDS Integers, Sequences, FiniteSets, TLC

VARIABLES
    issues,          \* SentryIssuesListData.issues
    listArg,         \* the list the SentryIssuesListData was constructed with
    mostTriggered,   \* what findMostTriggeredIssue returned
    listPc,          \* "start" | "done" | "prompted"
    mostTriggeredPrompt, \* what toMostTriggeredPromptResult returned
    idIn,            \* the parts the argument of extractIssueId is written from
    issueIdOrUrl,    \* the argument of extractIssueId, as characters
    idResult,        \* what extractIssueId returned or threw
    idPc,            \* "start" | "done"
    urlIn,           \* the parts the argument of extractIssuesApiUrl is written from
    url,             \* the argument of extractIssuesApiUrl, as characters
    urlResult,       \* what extractIssuesApiUrl(url) returned or threw
    urlResult2,      \* what extractIssuesApiUrl(urlResult) returned or threw
    urlPc,           \* "start" | "once" | "twice"
    latestEvent,     \* the argument of createStacktrace
    stacktrace,      \* what createStacktrace returned
    tracePc,         \* "start" | "done"
    envIssue,        \* a SentryIssueData
    envIssues,       \* the issues of a SentryIssuesListData
    envPrompt,       \* what envIssue.toPromptResult() returned
    envTool,         \* what envIssue.toToolResult() returned
    envListTool,     \* what the list's toToolResult() returned
    req,             \* a request to one of the handlers createServer registers
    sseTransport,    \* createExpressServer: the transport slot, 0 when undefined
    transports,      \* the SSEServerTransports constructed, in order
    posts,           \* what became of each POST /messages, in order
    start,           \* one call of startExpressServer
    cmd,             \* one run of the process: runCommand
    reqs             \* the requests in flight at once, and what they share

vars == <<issues, listArg, mostTriggered, listPc, mostTriggeredPrompt,
          idIn, issueIdOrUrl, idResult, idPc,
          urlIn, url, urlResult, urlResult2, urlPc,
          latestEvent, stacktrace, tracePc,
          envIssue, envIssues, envPrompt, envTool, envListTool, req,
          sseTransport, transports, posts, start, cmd, reqs>>

listVars == <<issues, listArg, mostTriggered, listPc, mostTriggeredPrompt>>
idVars == <<idIn, issueIdOrUrl, idResult, idPc>>
urlVars == <<urlIn, url, urlResult, urlResult2, urlPc>>
traceVars == <<latestEvent, stacktrace, tracePc>>
envVars == <<envIssue, envIssues, envPrompt, envTool, envListTool>>

\* What a call of one function leaves alone: the state of the others.
sseVars == <<sseTransport, transports, posts>>
exceptList == <<idVars, urlVars, traceVars, envVars, req, sseVars, start, cmd, reqs>>
exceptId == <<listVars, urlVars, traceVars, envVars, req, sseVars, start, cmd, reqs>>
exceptUrl == <<listVars, idVars, traceVars, envVars, req, sseVars, start, cmd, reqs>>
exceptTrace == <<listVars, idVars, urlVars, envVars, req, sseVars, start, cmd, reqs>>
exceptEnv == <<listVars, idVars, urlVars, traceVars, req, sseVars, start, cmd, reqs>>
exceptReq == <<listVars, idVars, urlVars, traceVars, envVars, sseVars, start, cmd, reqs>>
exceptSse == <<listVars, idVars, urlVars, traceVars, envVars, req, start, cmd, reqs>>
exceptStart == <<listVars, idVars, urlVars, traceVars, envVars, req, sseVars, cmd, reqs>>
exceptCmd == <<listVars, idVars, urlVars, traceVars, envVars, req, sseVars, start, reqs>>
exceptReqs == <<listVars, idVars, urlVars, traceVars, envVars, req, sseVars, start, cmd>>

----------------------------------------------------------------------------
(* Bounds of the model. *)

MaxIssues == 3
MaxUserCount == 3
MaxSegs == 4
MaxParams == 2
MaxBare == 3
MaxOtherSegs == 2
MaxEntries == 3
MaxUpstream == 2
MaxStreams == 3
MaxPosts == 2
MaxInFlight == 2

----------------------------------------------------------------------------
(* JavaScript string and array primitives. *)

\* The JavaScript null, as a value no string of characters equals.
Null == <<"null">>

\* JavaScript truthiness of a string-or-null: neither null nor "".
Truthy(s) == s # Null /\ s # <<>>

\* The first index of s at or after 1 holding a character of cs, Len(s)+1 if none.
FirstOf(s, cs) ==
    LET hits == {i \in 1..Len(s) : s[i] \in cs}
    IN  IF hits = {} THEN Len(s) + 1
        ELSE CHOOSE i \in hits : \A j \in hits : i <= j

\* The last index of s holding c, 0 if none.
LastOf(s, c) ==
    LET hits == {i \in 1..Len(s) : s[i] = c}
    IN  IF hits = {} THEN 0
        ELSE CHOOSE i \in hits : \A j \in hits : i >= j

\* String.prototype.startsWith
startsWith(s, p) == Len(s) >= Len(p) /\ SubSeq(s, 1, Len(p)) = p

\* String.prototype.split on a one-character separator.
RECURSIVE split(_, _)
split(s, sep) ==
    LET i == FirstOf(s, {sep})
    IN  IF i > Len(s) THEN <<s>>
        ELSE <<SubSeq(s, 1, i - 1)>> \o split(SubSeq(s, i + 1, Len(s)), sep)

NonEmptyString(s) == s # <<>>

\* Array.prototype.filter(Boolean) on an array of strings.
filterBoolean(arr) == SelectSeq(arr, NonEmptyString)

\* Array.prototype.indexOf: 0-based, -1 when absent.
indexOf(arr, x) ==
    LET hits == {i \in 1..Len(arr) : arr[i] = x}
    IN  IF hits = {} THEN -1
        ELSE (CHOOSE i \in hits : \A j \in hits : i <= j) - 1

\* arr[i] with a 0-based index i.
At(arr, i) == arr[i + 1]

\* The concatenation of ss[lo..hi], halving the range.
RECURSIVE FlattenRange(_, _, _)
FlattenRange(ss, lo, hi) ==
    IF lo > hi THEN <<>>
    ELSE IF lo = hi THEN ss[lo]
    ELSE FlattenRange(ss, lo, (lo + hi) \div 2)
         \o FlattenRange(ss, (lo + hi) \div 2 + 1, hi)

Flatten(ss) == FlattenRange(ss, 1, Len(ss))

Digits == {"0", "1", "2", "3", "4", "5", "6", "7", "8", "9"}

LowerAlpha == {"a", "b", "c", "d", "e", "f", "g", "h", "i", "j", "k", "l", "m",
               "n", "o", "p", "q", "r", "s", "t", "u", "v", "w", "x", "y", "z"}

UpperAlpha == {"A", "B", "C", "D", "E", "F", "G", "H", "I", "J", "K", "L", "M",
               "N", "O", "P", "Q", "R", "S", "T", "U", "V", "W", "X", "Y", "Z"}

\* The regular expression /^\d+$/ of extractIssueId.
IsNumeric(s) == Len(s) > 0 /\ \A i \in 1..Len(s) : s[i] \in Digits

----------------------------------------------------------------------------
(* Results of the functions that throw. *)

Return(v) == [ok |-> TRUE, val |-> v, err |-> "", kind |-> ""]

\* throw new SentryError(msg)
ThrowSentryError(msg) == [ok |-> FALSE, val |-> <<>>, err |-> msg, kind |-> "SentryError"]

NotCalled == [ok |-> FALSE, val |-> <<>>, err |-> "", kind |-> "not called"]

----------------------------------------------------------------------------
(* The runtime's URL and URLSearchParams (WHATWG URL standard), for the     *)
(* inputs of this model: special schemes, lower-case ASCII hosts that are   *)
(* not IPv4 numbers, ports below 65536 without leading zeros, and           *)
(* percent-escapes of the characters of PercentCoded only.                  *)

S_http == <<"h","t","t","p">>
S_https == <<"h","t","t","p","s">>
S_ftp == <<"f","t","p">>
S_ws == <<"w","s">>
S_wss == <<"w","s","s">>

SpecialSchemes == {S_http, S_https, S_ftp, S_ws, S_wss}

DefaultPort(scheme) ==
    CASE scheme = S_http -> <<"8","0">>
      [] scheme = S_https -> <<"4","4","3">>
      [] scheme = S_ftp -> <<"2","1">>
      [] scheme = S_ws -> <<"8","0">>
      [] scheme = S_wss -> <<"4","4","3">>

\* The forbidden domain code points among the printable ASCII characters.
ForbiddenHostChars == {" ", "#", "/", ":", "<", ">", "?", "@", "[", "\\", "]", "^", "|", "%"}

\* The characters this model knows the percent-escape of.
PercentCoded == {" ", "#", "%", "&", "+", "/", ":", "=", "?", "@"}

HexOf(c) ==
    CASE c = " " -> <<"2","0">>
      [] c = "#" -> <<"2","3">>
      [] c = "%" -> <<"2","5">>
      [] c = "&" -> <<"2","6">>
      [] c = "+" -> <<"2","B">>
      [] c = "/" -> <<"2","F">>
      [] c = ":" -> <<"3","A">>
      [] c = "=" -> <<"3","D">>
      [] c = "?" -> <<"3","F">>
      [] c = "@" -> <<"4","0">>

UpperHex(h) ==
    CASE h = "a" -> "A" [] h = "b" -> "B" [] h = "c" -> "C"
      [] h = "d" -> "D" [] h = "e" -> "E" [] h = "f" -> "F"
      [] OTHER -> h

IsCode(h1, h2) == \E c \in PercentCoded : HexOf(c) = <<UpperHex(h1), UpperHex(h2)>>

CharOf(h1, h2) == CHOOSE c \in PercentCoded : HexOf(c) = <<UpperHex(h1), UpperHex(h2)>>

\* Percent-decoding: "%" followed by two hex digits is the byte they name.
\* No hex digit is "%", so an escape starts at every "%" that two hex digits
\* of a known code follow, and the two digits are consumed with it.
EscapeAt(s, i) == i >= 1 /\ s[i] = "%" /\ i + 2 <= Len(s) /\ IsCode(s[i + 1], s[i + 2])

percentDecode(s) ==
    Flatten([i \in 1..Len(s) |->
                IF EscapeAt(s, i) THEN <<CharOf(s[i + 1], s[i + 2])>>
                ELSE IF EscapeAt(s, i - 1) \/ EscapeAt(s, i - 2) THEN <<>>
                ELSE <<s[i]>>])

\* Percent-encoding of the characters of `set`, every other character kept.
percentEncode(s, set) ==
    Flatten([i \in 1..Len(s) |->
                IF s[i] \in set THEN <<"%">> \o HexOf(s[i]) ELSE <<s[i]>>])

\* The path and the special-query percent-encode sets, within PercentCoded.
PathEncodeSet == {" ", "#", "?"}
QueryEncodeSet == {" ", "#"}

\* The application/x-www-form-urlencoded byte serializer.
formEncode(s) ==
    Flatten([i \in 1..Len(s) |->
                IF s[i] \in LowerAlpha \cup UpperAlpha \cup Digits \cup {"*", "-", ".", "_"}
                THEN <<s[i]>>
                ELSE IF s[i] = " " THEN <<"+">>
                ELSE <<"%">> \o HexOf(s[i])])

plusToSpace(s) == [i \in 1..Len(s) |-> IF s[i] = "+" THEN " " ELSE s[i]]

\* The application/x-www-form-urlencoded parser: a list of name-value pairs.
parseParams(q) ==
    LET pieces == filterBoolean(split(q, "&"))
        pair(p) ==
            LET eq == FirstOf(p, {"="})
            IN  [name |-> percentDecode(plusToSpace(SubSeq(p, 1, eq - 1))),
                 value |-> percentDecode(plusToSpace(SubSeq(p, eq + 1, Len(p))))]
    IN  [i \in 1..Len(pieces) |-> pair(pieces[i])]

\* The application/x-www-form-urlencoded serializer.
RECURSIVE serializeParams(_)
serializeParams(list) ==
    IF list = <<>> THEN <<>>
    ELSE formEncode(list[1].name) \o <<"=">> \o formEncode(list[1].value)
         \o (IF Len(list) > 1 THEN <<"&">> ELSE <<>>)
         \o serializeParams(Tail(list))

\* URLSearchParams.get: the first value of that name, or null.
paramsGet(list, name) ==
    LET hits == {i \in 1..Len(list) : list[i].name = name}
    IN  IF hits = {} THEN Null
        ELSE list[CHOOSE i \in hits : \A j \in hits : i <= j].value

\* URLSearchParams.set: the first pair of that name takes the value and the
\* others are removed; a new pair is appended when there is none.
paramsSet(list, name, value) ==
    LET hits == {i \in 1..Len(list) : list[i].name = name}
    IN  IF hits = {} THEN Append(list, [name |-> name, value |-> value])
        ELSE LET first == CHOOSE i \in hits : \A j \in hits : i <= j
                 keep == {i \in 1..Len(list) : i = first \/ list[i].name # name}
                 RECURSIVE build(_)
                 build(i) ==
                     IF i > Len(list) THEN <<>>
                     ELSE (IF i = first THEN <<[name |-> name, value |-> value]>>
                           ELSE IF i \in keep THEN <<list[i]>> ELSE <<>>)
                          \o build(i + 1)
             IN  build(1)

URLFailure ==
    [ok |-> FALSE, protocol |-> <<>>, host |-> <<>>, pathname |-> <<>>,
     query |-> Null, fragment |-> Null]

trimSpace(s) ==
    LET keep == {i \in 1..Len(s) : s[i] # " "}
    IN  IF keep = {} THEN <<>>
        ELSE SubSeq(s, CHOOSE i \in keep : \A j \in keep : i <= j,
                       CHOOSE i \in keep : \A j \in keep : i >= j)

dropSlashes(s) ==
    LET keep == {i \in 1..Len(s) : s[i] # "/"}
    IN  IF keep = {} THEN <<>>
        ELSE SubSeq(s, CHOOSE i \in keep : \A j \in keep : i <= j, Len(s))

DoubleDots == {<<".", ".">>, <<".", "%", "2", "e">>, <<"%", "2", "e", ".">>,
               <<"%", "2", "e", "%", "2", "e">>}
SingleDots == {<<".">>, <<"%", "2", "e">>}

\* The path state of the URL parser: one piece per "/"-separated buffer.
RECURSIVE pathState(_, _)
pathState(pieces, path) ==
    IF pieces = <<>> THEN path
    ELSE LET buffer == Head(pieces)
             last == Len(pieces) = 1
             slot == IF last THEN << <<>> >> ELSE <<>>
         IN  IF buffer \in DoubleDots
             THEN pathState(Tail(pieces),
                            (IF path = <<>> THEN path
                             ELSE SubSeq(path, 1, Len(path) - 1)) \o slot)
             ELSE IF buffer \in SingleDots
             THEN pathState(Tail(pieces), path \o slot)
             ELSE pathState(Tail(pieces),
                            Append(path, percentEncode(buffer, PathEncodeSet)))

\* new URL(input), without a base.
NewURL(input0) ==
    LET input == trimSpace(input0)
        colon == FirstOf(input, {":"})
        scheme == SubSeq(input, 1, colon - 1)
    IN  IF colon > Len(input) \/ scheme \notin SpecialSchemes THEN URLFailure
        ELSE
        LET rest == dropSlashes(SubSeq(input, colon + 1, Len(input)))
            aEnd == FirstOf(rest, {"/", "?", "#"})
            authority == SubSeq(rest, 1, aEnd - 1)
            hostport == SubSeq(authority, LastOf(authority, "@") + 1, Len(authority))
            pEnd == FirstOf(hostport, {":"})
            hostname == SubSeq(hostport, 1, pEnd - 1)
            port == SubSeq(hostport, pEnd + 1, Len(hostport))
            qStart == FirstOf(rest, {"?", "#"})
            fStart == FirstOf(rest, {"#"})
            pathRaw == SubSeq(rest, aEnd, qStart - 1)
            pieces == IF pathRaw = <<>> THEN << <<>> >> ELSE split(Tail(pathRaw), "/")
            path == pathState(pieces, <<>>)
        IN  IF \/ hostname = <<>>
               \/ \E i \in 1..Len(hostname) : hostname[i] \in ForbiddenHostChars
               \/ \E i \in 1..Len(port) : port[i] \notin Digits
            THEN URLFailure
            ELSE [ok |-> TRUE,
                  protocol |-> scheme \o <<":">>,
                  host |-> IF port = <<>> \/ port = DefaultPort(scheme)
                           THEN hostname ELSE hostname \o <<":">> \o port,
                  pathname |-> Flatten([i \in 1..Len(path) |-> <<"/">> \o path[i]]),
                  query |-> IF qStart < fStart
                            THEN percentEncode(SubSeq(rest, qStart + 1, fStart - 1),
                                               QueryEncodeSet)
                            ELSE Null,
                  fragment |-> IF fStart <= Len(rest)
                               THEN SubSeq(rest, fStart + 1, Len(rest)) ELSE Null]

\* url.searchParams
searchParams(u) == parseParams(IF u.query = Null THEN <<>> ELSE u.query)

\* The URL after its searchParams were changed to `list`.
withParams(u, list) ==
    [u EXCEPT !.query = IF list = <<>> THEN Null ELSE serializeParams(list)]

\* URL.prototype.toString: the href.
href(u) ==
    u.protocol \o <<"/", "/">> \o u.host \o u.pathname
    \o (IF u.query = Null THEN <<>> ELSE <<"?">> \o u.query)
    \o (IF u.fragment = Null THEN <<>> ELSE <<"#">> \o u.fragment)

----------------------------------------------------------------------------
(* utils: extractIssueId *)

S_httpPrefix == <<"h","t","t","p",":","/","/">>
S_httpsPrefix == <<"h","t","t","p","s",":","/","/">>
S_issues == <<"i","s","s","u","e","s">>

MissingIssueIdMsg == "Missing issue_id_or_url argument"
InvalidIssueUrlMsg == "Invalid Sentry issue URL. Path must contain '/issues/{issue_id}'"
InvalidUrlMsg == "Invalid URL: Invalid URL"
NotNumericMsg == "Invalid Sentry issue ID. Must be a numeric value."

\* validateNumeric with the unanchored /\d+/: one digit anywhere is enough.
validateNumericUnanchored(issueId) ==
    IF ~(\E i \in 1..Len(issueId) : issueId[i] \in Digits)
    THEN ThrowSentryError(NotNumericMsg)
    ELSE Return(issueId)

\* validateNumeric returning String(parseInt(issueId)): leading zeros are lost.
validateNumericNormalized(issueId) ==
    LET nonZero == {i \in 1..Len(issueId) : issueId[i] # "0"}
    IN  IF ~IsNumeric(issueId) THEN ThrowSentryError(NotNumericMsg)
        ELSE IF nonZero = {} THEN Return(<<"0">>)
        ELSE Return(SubSeq(issueId, CHOOSE i \in nonZero : \A j \in nonZero : i <= j,
                           Len(issueId)))

\* The final test of extractIssueId on the identifier found.
validateNumeric(issueId) ==
    IF ~IsNumeric(issueId) THEN ThrowSentryError(NotNumericMsg)
    ELSE Return(issueId)

\* issueIdFromUrl without filter(Boolean): empty segments are kept.
issueIdFromUrlNoFilter(arg) ==
    LET parsedUrl == NewURL(arg)
    IN  IF ~parsedUrl.ok THEN ThrowSentryError(InvalidUrlMsg)
        ELSE LET pathParts == split(parsedUrl.pathname, "/")
             IN  IF Len(pathParts) < 2 \/ At(pathParts, Len(pathParts) - 2) # S_issues
                 THEN ThrowSentryError(InvalidIssueUrlMsg)
                 ELSE validateNumeric(At(pathParts, Len(pathParts) - 1))

\* issueIdFromUrl taking the segment after the first "issues", wherever it is.
issueIdFromUrlAnyIssues(arg) ==
    LET parsedUrl == NewURL(arg)
    IN  IF ~parsedUrl.ok THEN ThrowSentryError(InvalidUrlMsg)
        ELSE LET pathParts == filterBoolean(split(parsedUrl.pathname, "/"))
                 issuesIndex == indexOf(pathParts, S_issues)
             IN  IF issuesIndex = -1 \/ issuesIndex + 1 >= Len(pathParts)
                 THEN ThrowSentryError(InvalidIssueUrlMsg)
                 ELSE validateNumeric(At(pathParts, issuesIndex + 1))

\* The branch of extractIssueId for an argument that starts with http:// or https://.
issueIdFromUrl(arg) ==
    LET parsedUrl == NewURL(arg)
    IN  IF ~parsedUrl.ok THEN ThrowSentryError(InvalidUrlMsg)
        ELSE LET pathParts == filterBoolean(split(parsedUrl.pathname, "/"))
             IN  IF Len(pathParts) < 2 \/ At(pathParts, Len(pathParts) - 2) # S_issues
                 THEN ThrowSentryError(InvalidIssueUrlMsg)
                 ELSE validateNumeric(At(pathParts, Len(pathParts) - 1))

\* extractIssueId taking every argument with "://" in it for a URL.
extractIssueIdAnyScheme(arg) ==
    IF arg = <<>> THEN ThrowSentryError(MissingIssueIdMsg)
    ELSE IF \E i \in 1..(Len(arg) - 2) : SubSeq(arg, i, i + 2) = <<":", "/", "/">>
    THEN issueIdFromUrl(arg)
    ELSE validateNumeric(arg)

extractIssueId(arg) ==
    IF arg = <<>> THEN ThrowSentryError(MissingIssueIdMsg)
    ELSE IF startsWith(arg, S_httpPrefix) \/ startsWith(arg, S_httpsPrefix)
    THEN issueIdFromUrl(arg)
    ELSE validateNumeric(arg)

----------------------------------------------------------------------------
(* utils: extractIssuesApiUrl *)

S_organizations == <<"o","r","g","a","n","i","z","a","t","i","o","n","s">>
S_projects == <<"p","r","o","j","e","c","t","s">>
S_project == <<"p","r","o","j","e","c","t">>
S_limit == <<"l","i","m","i","t">>
S_sort == <<"s","o","r","t">>
S_statsPeriod == <<"s","t","a","t","s","P","e","r","i","o","d">>
S_query == <<"q","u","e","r","y">>
S_5 == <<"5">>
S_freq == <<"f","r","e","q">>
S_14d == <<"1","4","d">>
S_apiOrganizations == <<"/","a","p","i","/","0","/","o","r","g","a","n","i","z","a","t","i","o","n","s","/">>
S_issuesSlash == <<"/","i","s","s","u","e","s","/">>
DefaultQuery == <<"e","r","r","o","r",".","u","n","h","a","n","d","l","e","d",":","t","r","u","e"," ","i","s",":","u","n","r","e","s","o","l","v","e","d">>

MissingUrlMsg == "Missing URL argument"
NoOrganizationMsg == "Could not extract organization from URL"
NoProjectMsg == "Could not extract project ID from URL"
InvalidUrlFormatMsg == "Invalid URL or URL format: Invalid URL"

\* organizationOf with lastIndexOf in place of indexOf.
organizationOfLast(pathSegments) ==
    LET hits == {i \in 1..Len(pathSegments) : pathSegments[i] = S_organizations}
        orgIndex == IF hits = {} THEN -1
                    ELSE (CHOOSE i \in hits : \A j \in hits : i >= j) - 1
    IN  IF orgIndex # -1 /\ orgIndex + 1 < Len(pathSegments)
        THEN At(pathSegments, orgIndex + 1) ELSE Null

\* The organization: the segment after the first "organizations", or null.
organizationOf(pathSegments) ==
    LET orgIndex == indexOf(pathSegments, S_organizations)
    IN  IF orgIndex # -1 /\ orgIndex + 1 < Len(pathSegments)
        THEN At(pathSegments, orgIndex + 1) ELSE Null

\* projectOf trying the path first and the query parameter second.
projectOfPathFirst(parsedUrl, pathSegments) ==
    LET projectQuery == paramsGet(searchParams(parsedUrl), S_project)
        projectsIndex == indexOf(pathSegments, S_projects)
    IN  IF projectsIndex # -1 /\ projectsIndex + 1 < Len(pathSegments)
        THEN At(pathSegments, projectsIndex + 1)
        ELSE IF Truthy(projectQuery) THEN projectQuery ELSE Null

\* The project: the project query parameter, else the segment after "projects".
projectOf(parsedUrl, pathSegments) ==
    LET projectQuery == paramsGet(searchParams(parsedUrl), S_project)
        projectsIndex == indexOf(pathSegments, S_projects)
    IN  IF Truthy(projectQuery) THEN projectQuery
        ELSE IF projectsIndex # -1 /\ projectsIndex + 1 < Len(pathSegments)
        THEN At(pathSegments, projectsIndex + 1) ELSE Null

\* queryOf handing on the value already encoded (an encodeURIComponent too many).
queryOfDoubleEncoded(parsedUrl) ==
    LET origQuery == paramsGet(searchParams(parsedUrl), S_query)
    IN  IF Truthy(origQuery) THEN formEncode(origQuery) ELSE DefaultQuery

\* The value of the query parameter of the result.
queryOf(parsedUrl) ==
    LET origQuery == paramsGet(searchParams(parsedUrl), S_query)
    IN  IF Truthy(origQuery) THEN origQuery ELSE DefaultQuery

\* buildApiUrl starting from the input's own parameters instead of none.
buildApiUrlKeepParams(parsedUrl, organization, project) ==
    LET baseUrl == parsedUrl.protocol \o <<"/", "/">> \o parsedUrl.host
        apiUrl == baseUrl \o S_apiOrganizations \o organization \o S_issuesSlash
        finalUrl == NewURL(apiUrl)
        p1 == paramsSet(searchParams(parsedUrl), S_project, project)
        p2 == paramsSet(p1, S_limit, S_5)
        p3 == paramsSet(p2, S_sort, S_freq)
        p4 == paramsSet(p3, S_statsPeriod, S_14d)
        p5 == paramsSet(p4, S_query, queryOf(parsedUrl))
    IN  IF ~finalUrl.ok THEN ThrowSentryError(InvalidUrlFormatMsg)
        ELSE Return(href(withParams(finalUrl, p5)))

\* The standardized URL: new URL(apiUrl) with its five parameters set.
buildApiUrl(parsedUrl, organization, project) ==
    LET baseUrl == parsedUrl.protocol \o <<"/", "/">> \o parsedUrl.host
        apiUrl == baseUrl \o S_apiOrganizations \o organization \o S_issuesSlash
        finalUrl == NewURL(apiUrl)
        p1 == paramsSet(searchParams(finalUrl), S_project, project)
        p2 == paramsSet(p1, S_limit, S_5)
        p3 == paramsSet(p2, S_sort, S_freq)
        p4 == paramsSet(p3, S_statsPeriod, S_14d)
        p5 == paramsSet(p4, S_query, queryOf(parsedUrl))
    IN  IF ~finalUrl.ok THEN ThrowSentryError(InvalidUrlFormatMsg)
        ELSE Return(href(withParams(finalUrl, p5)))

extractIssuesApiUrl(arg) ==
    IF arg = <<>> THEN ThrowSentryError(MissingUrlMsg)
    ELSE LET parsedUrl == NewURL(arg)
         IN  IF ~parsedUrl.ok THEN ThrowSentryError(InvalidUrlFormatMsg)
             ELSE LET pathSegments == filterBoolean(split(parsedUrl.pathname, "/"))
                      organization == organizationOf(pathSegments)
                      project == projectOf(parsedUrl, pathSegments)
                  IN  IF ~Truthy(organization) THEN ThrowSentryError(NoOrganizationMsg)
                      ELSE IF ~Truthy(project) THEN ThrowSentryError(NoProjectMsg)
                      ELSE buildApiUrl(parsedUrl, organization, project)

----------------------------------------------------------------------------
(* utils: createStacktrace. A text is the sequence of the pieces that the   *)
(* template literals and += concatenate; a field that is absent is "" (a    *)
(* string) or 0 (a number), which are falsy as undefined is.                *)

\* `${n}` of a number.
Str(n) == ToString(n)

\* x || d
OrElse(x, d) == IF x = "" THEN d ELSE x

NoStacktraceFound == <<"No stacktrace found">>

\* entry.type !== 'exception' is false for every entry.
isExceptionEntryAny(entry) == TRUE

isExceptionEntry(entry) == entry.type = "exception"

\* for (const ctx_line of frame.context): `    ${ctx_line[1]}\n`
RECURSIVE contextText(_, _)
contextText(context, i) ==
    IF i > Len(context) THEN <<>>
    ELSE <<"    ", context[i][2], "\n">> \o contextText(context, i + 1)

\* frameText with the source context ahead of the frame's own line.
frameTextContextFirst(frame) ==
    contextText(frame.context, 1)
    \o <<OrElse(frame.filename, "Unknown"), ":",
         IF frame.lineNo = 0 THEN "?" ELSE Str(frame.lineNo),
         " in ", OrElse(frame.function, "Unknown"), "\n">>
    \o <<"\n">>

\* One pass of the loop over the frames.
frameText(frame) ==
    LET filename == OrElse(frame.filename, "Unknown")
        lineno == IF frame.lineNo = 0 THEN "?" ELSE Str(frame.lineNo)
        func == OrElse(frame.function, "Unknown")
    IN  <<filename, ":", lineno, " in ", func, "\n">>
        \o contextText(frame.context, 1)
        \o <<"\n">>

RECURSIVE framesText(_, _)
framesText(frames, i) ==
    IF i > Len(frames) THEN <<>>
    ELSE frameText(frames[i]) \o framesText(frames, i + 1)

\* One pass of the loop over the exceptions: the text that is pushed.
exceptionText(exception) ==
    LET exceptionType == OrElse(exception.type, "Unknown")
        exceptionValue == OrElse(exception.value, "")
    IN  <<"Exception: ", exceptionType, ": ", exceptionValue, "\n\n">>
        \o (IF exception.stacktrace.present
            THEN <<"Stacktrace:\n">> \o framesText(exception.stacktrace.frames, 1)
            ELSE <<>>)

RECURSIVE exceptionTexts(_, _)
exceptionTexts(values, i) ==
    IF i > Len(values) THEN <<>>
    ELSE <<exceptionText(values[i])>> \o exceptionTexts(values, i + 1)

\* The array stacktraces after the loop over the entries from entry i on.
RECURSIVE stacktracesOf(_, _)
stacktracesOf(entries, i) ==
    IF i > Len(entries) THEN <<>>
    ELSE (IF isExceptionEntry(entries[i])
          THEN exceptionTexts(entries[i].data.values, 1)
          ELSE <<>>)
         \o stacktracesOf(entries, i + 1)

\* Array.prototype.join('\n') of texts.
RECURSIVE join(_, _)
join(texts, i) ==
    IF i > Len(texts) THEN <<>>
    ELSE IF i = Len(texts) THEN texts[i]
    ELSE texts[i] \o <<"\n">> \o join(texts, i + 1)

createStacktrace(event) ==
    LET stacktraces == stacktracesOf(event.entries, 1)
    IN  IF Len(stacktraces) > 0 THEN join(stacktraces, 1) ELSE NoStacktraceFound

----------------------------------------------------------------------------
(* types: SentryIssuesListData.findMostTriggeredIssue *)

\* The JavaScript null where an issue is expected.
NullIssue == [id |-> 0, userCount |-> 0]

\* reduceStep with >= in place of >: the last of the greatest wins.
reduceStepLastWins(max, current) == IF current.userCount >= max.userCount THEN current ELSE max

\* The callback of the reduce: the current element wins only when strictly greater.
reduceStep(max, current) == IF current.userCount > max.userCount THEN current ELSE max

\* Array.prototype.reduce with an initial value, from index i on.
RECURSIVE reduce(_, _, _)
reduce(arr, i, acc) ==
    IF i > Len(arr) THEN acc ELSE reduce(arr, i + 1, reduceStep(acc, arr[i]))

\* findMostTriggeredIssue that also gives null when nobody was affected.
findMostTriggeredIssueZeroIsNone(list) ==
    IF Len(list) = 0 \/ reduce(list, 1, list[1]).userCount = 0
    THEN NullIssue ELSE reduce(list, 1, list[1])

findMostTriggeredIssue(list) ==
    IF Len(list) = 0 THEN NullIssue ELSE reduce(list, 1, list[1])

(* types: the texts and the MCP envelopes. A text is the sequence of the   *)
(* pieces a template literal concatenates.                                  *)

\* A GetPromptResult: a description and one user-role text message.
GetPromptResult(description, text) ==
    [description |-> description,
     messages |-> <<[role |-> "user", content |-> [type |-> "text", text |-> text]]>>]

\* A tool result: one text content block.
ToolResult(text) == <<[type |-> "text", text |-> text]>>

NoResult == [description |-> <<>>, messages |-> <<>>]
NoToolResult == <<>>

NoIssuesDescription == <<"No issues found">>
NoIssuesText == <<"No issues were found in the list.">>

MostTriggeredText(m) ==
    <<"The issue affecting the most users (", Str(m.userCount), " users) is:\n\n",
      "ID: ", Str(m.id), "\n",
      "Title: ", m.title, "\n",
      "Type: ", m.issueType, ", Level: ", m.level, "\n",
      "Last Seen: ", m.lastSeen, "\n",
      "Event Count: ", Str(m.count)>>

toMostTriggeredPromptResult(list) ==
    LET mostTriggeredIssue == findMostTriggeredIssue(list)
    IN  IF mostTriggeredIssue = NullIssue
        THEN GetPromptResult(NoIssuesDescription, NoIssuesText)
        ELSE GetPromptResult(<<"Most Triggered Issue: ", mostTriggeredIssue.title>>,
                             MostTriggeredText(mostTriggeredIssue))

(* types: SentryIssueData *)

SentryIssueData(title, issueId, status, level, firstSeen, lastSeen, count, trace) ==
    [title |-> title, issueId |-> issueId, status |-> status, level |-> level,
     firstSeen |-> firstSeen, lastSeen |-> lastSeen, count |-> count,
     stacktrace |-> trace]

NoIssueData == SentryIssueData("", <<>>, "", "", "", "", "", <<>>)

toText(d) ==
    <<"\nSentry Issue: ", d.title, "\nIssue ID: ">> \o d.issueId
    \o <<"\nStatus: ", d.status, "\nLevel: ", d.level,
         "\nFirst Seen: ", d.firstSeen, "\nLast Seen: ", d.lastSeen,
         "\nEvent Count: ", d.count, "\n\n">>
    \o d.stacktrace \o <<"\n    ">>

toPromptResult(d) == GetPromptResult(<<"Sentry Issue: ", d.title>>, toText(d))

\* toToolResult with a text of its own, which leaves the stacktrace out.
toToolResultNoStacktrace(d) == ToolResult(toText([d EXCEPT !.stacktrace = <<>>]))

toToolResult(d) == ToolResult(toText(d))

(* types: SentryIssuesListData.toText and toToolResult *)

\* The callback of the map in toText; index is zero-based.
issueText(issue, index) ==
    <<Str(index + 1), ". [", Str(issue.id), "] ", issue.title, "\n",
      "   Type: ", issue.issueType, ", Level: ", issue.level, "\n",
      "   Users Affected: ", Str(issue.userCount), ", Events: ", Str(issue.count), "\n",
      "   Last Seen: ", issue.lastSeen, "\n">>

toTextList(list) ==
    <<"Sentry Issues List (Top ", Str(Len(list)), "):\n\n">>
    \o join([i \in 1..Len(list) |-> issueText(list[i], i - 1)], 1)

toToolResultList(list) == ToolResult(toTextList(list))

----------------------------------------------------------------------------
(* core: handleSentryIssue, handleSentryIssuesList and the four handlers    *)
(* createServer registers. A request is a record; each operator is the     *)
(* code that runs between two awaits.                                       *)

IssueNames == {"sentry-issue", "get_sentry_issue"}
ListNames == {"get_sentry_issues_list", "most-triggered-issue"}

\* Errors: kind is the class; status is error.response.status of an
\* AxiosError, 0 when the error has no response.
NoError == [kind |-> "none", message |-> <<>>, status |-> 0]
Error(message) == [kind |-> "Error", message |-> message, status |-> 0]
RangeError(message) == [kind |-> "RangeError", message |-> message, status |-> 0]
TypeError(message) == [kind |-> "TypeError", message |-> <<message>>, status |-> 0]
SentryErrorOf(thrown) == [kind |-> "SentryError", message |-> <<thrown.err>>, status |-> 0]
AxiosError(status) ==
    [kind |-> "AxiosError",
     message |-> IF status = 0 THEN <<"Network Error">>
                 ELSE <<"Request failed with status code ", Str(status)>>,
     status |-> status]

isAxiosError(e) == e.kind = "AxiosError"
instanceofSentryError(e) == e.kind = "SentryError"
instanceofError(e) ==
    e.kind \in {"Error", "TypeError", "RangeError", "SentryError", "AxiosError"}

OK == 200
Unauthorized == 401
ServerError == 500
\* No response at all: the connection failed.
NoStatus == 0

UnauthorizedMsg == "Error: Unauthorized. Please check your SENTRY_TOKEN."
IssuePrefix == "Error fetching Sentry issue: "
UnknownPrefix == "An unknown error occurred: "
ListPrefix == "Error fetching Sentry issues list: "
NoEventsMsg == "No Sentry events found for this issue"
NoIssuesMsg == "No issues found or invalid response format"

\* Response bodies: null (or absent), an array, or another object.
NoFields == [title |-> "", status |-> "", level |-> "", firstSeen |-> "",
             lastSeen |-> "", count |-> ""]
NullBody == [kind |-> "null", items |-> <<>>, fields |-> NoFields]
ArrayBody(items) == [kind |-> "array", items |-> items, fields |-> NoFields]
ObjectBody(fields) == [kind |-> "object", items |-> <<>>, fields |-> fields]
Response(status, data) == [status |-> status, data |-> data]

\* A hash whose latestEvent is absent.
UndefinedEvent == [undefined |-> TRUE]

NoResponse == [kind |-> "none"]
PromptResponse(result) == [kind |-> "prompt", result |-> result]
ToolResponse(content) == [kind |-> "tool", content |-> content]

NewRequest(name, arg) ==
    [name |-> name, arg |-> arg, pc |-> "start",
     calls |-> <<>>,            \* the GETs issued, in order
     responses |-> <<>>,        \* the responses received, in order
     issueId |-> <<>>, issueData |-> NullBody,
     issue |-> NoIssueData,     \* what handleSentryIssue returned
     list |-> <<>>,             \* the issues of what handleSentryIssuesList returned
     error |-> NoError,         \* what the handler threw
     response |-> NoResponse,   \* what the registered callback returned
     reached |-> {}]            \* the functions called after the upstream calls

NoRequest == NewRequest("", <<>>)

(* parseInt(x) of the string a value converts to, in radix 10. *)

NaN == [nan |-> TRUE, n |-> 0]

DigitValue(c) == CHOOSE n \in 0..9 : Str(n) = c

RECURSIVE digitsPrefix(_)
digitsPrefix(s) ==
    IF s # <<>> /\ Head(s) \in Digits THEN <<Head(s)>> \o digitsPrefix(Tail(s)) ELSE <<>>

RECURSIVE decimal(_, _)
decimal(ds, acc) ==
    IF ds = <<>> THEN acc ELSE decimal(Tail(ds), 10 * acc + DigitValue(Head(ds)))

RECURSIVE skipWhitespace(_)
skipWhitespace(s) == IF s # <<>> /\ Head(s) = " " THEN skipWhitespace(Tail(s)) ELSE s

parseInt(s) ==
    LET t0 == skipWhitespace(s)
        signed == t0 # <<>> /\ Head(t0) \in {"-", "+"}
        sign == IF t0 # <<>> /\ Head(t0) = "-" THEN -1 ELSE 1
        ds == digitsPrefix(IF signed THEN Tail(t0) ELSE t0)
    IN  IF ds = <<>> THEN NaN ELSE [nan |-> FALSE, n |-> sign * decimal(ds, 0)]

\* x || 0 of a number
orZero(x) == IF x.nan \/ x.n = 0 THEN 0 ELSE x.n

(* handleSentryIssue *)

\* innerCatch that puts the prefix of the operation on what it rethrows.
innerCatchPrefixing(e) ==
    IF isAxiosError(e) /\ e.status = Unauthorized THEN Error(<<UnauthorizedMsg>>)
    ELSE Error(<<IssuePrefix>> \o e.message)

\* catch (error) of the inner try
innerCatch(e) ==
    IF isAxiosError(e) /\ e.status = Unauthorized THEN Error(<<UnauthorizedMsg>>) ELSE e

\* catch (error) of the outer try
outerCatch(e) ==
    IF instanceofSentryError(e) THEN e
    ELSE IF instanceofError(e) THEN Error(<<IssuePrefix>> \o e.message)
    ELSE Error(<<UnknownPrefix>> \o e.message)

\* A throw outside the inner try, and one inside it.
throwOuter(r, e) == [r EXCEPT !.pc = "failed", !.error = outerCatch(e)]
throwInner(r, e) == throwOuter(r, innerCatch(e))

issuePath(issueId) == <<"issues/">> \o issueId \o <<"/">>
hashesPath(issueId) == <<"issues/">> \o issueId \o <<"/hashes/">>

\* After extractIssueId returned or threw: axios.create, the issue GET.
issueGet(r, extracted) ==
    IF ~extracted.ok THEN throwOuter(r, SentryErrorOf(extracted))
    ELSE [r EXCEPT !.issueId = extracted.val,
                   !.calls = Append(@, issuePath(extracted.val)),
                   !.pc = "awaitIssue"]

\* Up to the first await.
handleSentryIssue(r) == issueGet(r, extractIssueId(r.arg))

\* afterIssueResponse that issues the issue GET once more when it has failed.
afterIssueResponseRetry(r, issueResponse) ==
    LET r1 == [r EXCEPT !.responses = Append(@, issueResponse)]
    IN  IF issueResponse.status # OK /\ Len(r.calls) < 2
        THEN [r1 EXCEPT !.calls = Append(@, issuePath(r.issueId))]
        ELSE IF issueResponse.status # OK
        THEN throwInner(r1, AxiosError(issueResponse.status))
        ELSE [r1 EXCEPT !.issueData = issueResponse.data,
                        !.calls = Append(@, hashesPath(r.issueId)),
                        !.pc = "awaitHashes"]

\* From the issue response to the second await: the hashes GET.
afterIssueResponse(r, issueResponse) ==
    LET r1 == [r EXCEPT !.responses = Append(@, issueResponse)]
    IN  IF issueResponse.status # OK THEN throwInner(r1, AxiosError(issueResponse.status))
        ELSE [r1 EXCEPT !.issueData = issueResponse.data,
                        !.calls = Append(@, hashesPath(r.issueId)),
                        !.pc = "awaitHashes"]

\* !hashes only: an empty array is let through.
noHashesOnlyAbsent(hashes) == hashes.kind = "null"

\* !hashes || hashes.length === 0
noHashes(hashes) ==
    hashes.kind = "null" \/ (hashes.kind = "array" /\ Len(hashes.items) = 0)

\* hashes[0].latestEvent, createStacktrace, new SentryIssueData
withHashes(r, hashes) ==
    IF hashes.kind # "array" \/ Len(hashes.items) = 0
    THEN throwInner(r, TypeError("Cannot read properties of undefined (reading 'latestEvent')"))
    ELSE
    LET event == hashes.items[1].latestEvent
        r1 == [r EXCEPT !.reached = @ \cup {"createStacktrace"}]
        issueData == r.issueData.fields
    IN  IF event = UndefinedEvent
        THEN throwInner(r1, TypeError("Cannot read properties of undefined (reading 'entries')"))
        ELSE IF r.issueData.kind = "null"
        THEN throwInner(r1, TypeError("Cannot read properties of null (reading 'title')"))
        ELSE [r1 EXCEPT !.reached = @ \cup {"SentryIssueData"},
                        !.issue = SentryIssueData(issueData.title, r.issueId,
                                      issueData.status, issueData.level,
                                      issueData.firstSeen, issueData.lastSeen,
                                      issueData.count, createStacktrace(event)),
                        !.pc = "returned"]

\* afterHashesResponse that returns the issue without a stacktrace when the
\* hashes cannot be had.
afterHashesResponsePartial(r, hashesResponse) ==
    LET r1 == [r EXCEPT !.responses = Append(@, hashesResponse)]
        issueData == r.issueData.fields
    IN  IF hashesResponse.status # OK \/ noHashes(hashesResponse.data)
        THEN [r1 EXCEPT !.issue = SentryIssueData(issueData.title, r.issueId,
                                      issueData.status, issueData.level,
                                      issueData.firstSeen, issueData.lastSeen,
                                      issueData.count, NoStacktraceFound),
                        !.pc = "returned"]
        ELSE withHashes(r1, hashesResponse.data)

\* From the hashes response to the return or the throw.
afterHashesResponse(r, hashesResponse) ==
    LET r1 == [r EXCEPT !.responses = Append(@, hashesResponse)]
    IN  IF hashesResponse.status # OK THEN throwInner(r1, AxiosError(hashesResponse.status))
        ELSE IF noHashes(hashesResponse.data) THEN throwInner(r1, Error(<<NoEventsMsg>>))
        ELSE withHashes(r1, hashesResponse.data)

(* handleSentryIssuesList *)

\* listCatch that rethrows a SentryError as the outer catch of
\* handleSentryIssue does.
listCatchKeepingSentryError(e) ==
    IF instanceofSentryError(e) THEN e
    ELSE IF isAxiosError(e) /\ e.status = Unauthorized THEN Error(<<UnauthorizedMsg>>)
    ELSE Error(<<ListPrefix>> \o e.message)

\* catch (error) of handleSentryIssuesList
listCatch(e) ==
    IF isAxiosError(e) /\ e.status = Unauthorized THEN Error(<<UnauthorizedMsg>>)
    ELSE Error(<<ListPrefix>> \o e.message)

throwList(r, e) == [r EXCEPT !.pc = "failed", !.error = listCatch(e)]

\* After extractIssuesApiUrl returned or threw: axios.create, the GET.
listGet(r, extracted) ==
    IF ~extracted.ok THEN throwList(r, SentryErrorOf(extracted))
    ELSE [r EXCEPT !.calls = Append(@, extracted.val), !.pc = "awaitList"]

\* Up to the await.
handleSentryIssuesList(r) == listGet(r, extractIssuesApiUrl(r.arg))

\* !Array.isArray(response.data) only: an empty array is let through.
noIssuesOnlyNonArray(data) == data.kind # "array"

\* !Array.isArray(response.data) || response.data.length === 0
noIssues(data) == data.kind # "array" \/ Len(data.items) = 0

\* The callback of response.data.map
mapIssue(issue) ==
    [id |-> issue.id, title |-> issue.title, issueType |-> issue.issueType,
     level |-> issue.level, userCount |-> orZero(parseInt(issue.userCount)),
     lastSeen |-> issue.lastSeen, count |-> orZero(parseInt(issue.count))]

\* From the response to the return or the throw.
afterListResponse(r, response) ==
    LET r1 == [r EXCEPT !.responses = Append(@, response)]
    IN  IF response.status # OK THEN throwList(r1, AxiosError(response.status))
        ELSE IF noIssues(response.data) THEN throwList(r1, Error(<<NoIssuesMsg>>))
        ELSE [r1 EXCEPT !.list = [i \in 1..Len(response.data.items) |->
                                      mapIssue(response.data.items[i])],
                        !.pc = "returned"]

(* createServer: what the registered callbacks do with what the handler    *)
(* returned.                                                                *)

respond(r) ==
    LET response ==
            CASE r.name = "sentry-issue" -> PromptResponse(toPromptResult(r.issue))
              [] r.name = "get_sentry_issue" -> ToolResponse(toToolResult(r.issue))
              [] r.name = "get_sentry_issues_list" -> ToolResponse(toToolResultList(r.list))
              [] r.name = "most-triggered-issue" ->
                    PromptResponse(toMostTriggeredPromptResult(r.list))
        formatter ==
            CASE r.name = "sentry-issue" -> "toPromptResult"
              [] r.name = "most-triggered-issue" -> "toMostTriggeredPromptResult"
              [] OTHER -> "toToolResult"
    IN  [r EXCEPT !.response = response, !.reached = @ \cup {formatter},
                  !.pc = "responded"]

(* Several requests in flight. What a call can reach is its own record and *)
(* the closure of createServer; the event loop runs one continuation at a  *)
(* time, to its next await.                                                 *)

DEFAULT_SENTRY_API_BASE == "https://sentry.io/api/0/"

\* The parameters of createServer, which the four callbacks close over.
Closure == [authToken |-> "token", sentryApiBase |-> DEFAULT_SENTRY_API_BASE]

NoRequests == [closure |-> Closure, calls |-> <<>>]

\* A registered callback is called: the handler runs up to its first await.
handler(r) ==
    IF r.name \in IssueNames THEN handleSentryIssue(r) ELSE handleSentryIssuesList(r)

call(rs, r) == [rs EXCEPT !.calls = Append(@, handler(r))]

\* The code of a call after the await it is at.
continue(r, response) ==
    CASE r.pc = "awaitIssue" -> afterIssueResponse(r, response)
      [] r.pc = "awaitHashes" -> afterHashesResponse(r, response)
      [] r.pc = "awaitList" -> afterListResponse(r, response)

\* resume with issueId kept in one place for all the calls: the continuation
\* finds there what the call made last has written.
resumeSharedIssueId(rs, i, response) ==
    [rs EXCEPT !.calls[i] =
        continue([rs.calls[i] EXCEPT !.issueId = rs.calls[Len(rs.calls)].issueId],
                 response)]

\* The upstream answered the GET call i awaits: its continuation runs.
resume(rs, i, response) ==
    [rs EXCEPT !.calls[i] = continue(rs.calls[i], response)]

\* The handler of call i has returned: the callback makes the response.
reply(rs, i) == [rs EXCEPT !.calls[i] = respond(rs.calls[i])]

----------------------------------------------------------------------------
(* server: createExpressServer. A transport is known by its place in the   *)
(* order of construction. Its stream is "opening" from its construction    *)
(* until mcpServer.connect has resolved, then "open", and "closed" once    *)
(* the client has gone or the transport was closed; its handler is the GET *)
(* /sse handler that constructed it, "awaiting" the connect or "done";     *)
(* failedAt is the number of transports constructed when the connect of   *)
(* its handler was rejected, 0 while it was not.                          *)

Undefined == 0
BadRequest == 400
\* The POST was passed to a transport's handlePostMessage.
Handled == 0

NewTransport == [stream |-> "opening", handler |-> "awaiting", failedAt |-> 0]

\* The transports whose stream is open or being opened.
OpenStreams(ts) == {k \in 1..Len(ts) : ts[k].stream \in {"opening", "open"}}

\* sseTransport?.close()
closeSlot(ts, slot) ==
    IF slot = Undefined THEN ts ELSE [ts EXCEPT ![slot].stream = "closed"]

\* The transports whose GET /sse handler still awaits mcpServer.connect.
Awaiting(ts) == {k \in 1..Len(ts) : ts[k].handler = "awaiting"}

\* The handlers whose connect was rejected after the latest GET /sse.
FailedSince(ts) == {k \in 1..Len(ts) : ts[k].failedAt = Len(ts)}

\* The POST /messages handler as it would be if it looked at the transport:
\* a transport whose connect is pending is not used.
postMessagesConnected(ts, slot) ==
    IF slot = Undefined \/ slot \in Awaiting(ts)
    THEN [status |-> BadRequest, to |-> Undefined, open |-> OpenStreams(ts),
          made |-> Len(ts), awaiting |-> Awaiting(ts), failed |-> FailedSince(ts)]
    ELSE [status |-> Handled, to |-> slot, open |-> OpenStreams(ts),
          made |-> Len(ts), awaiting |-> Awaiting(ts), failed |-> FailedSince(ts)]

\* The POST /messages handler: what becomes of the POST, and what it found
\* (the streams open, the number of transports made, the pending connects
\* and the connects that failed since the latest GET /sse).
postMessages(ts, slot) ==
    IF slot = Undefined
    THEN [status |-> BadRequest, to |-> Undefined, open |-> OpenStreams(ts),
          made |-> Len(ts), awaiting |-> Awaiting(ts), failed |-> FailedSince(ts)]
    ELSE [status |-> Handled, to |-> slot, open |-> OpenStreams(ts),
          made |-> Len(ts), awaiting |-> Awaiting(ts), failed |-> FailedSince(ts)]

----------------------------------------------------------------------------
(* server: startExpressServer. The call is a record; each operator is the   *)
(* code that runs between two awaits. The message of a listen error is its  *)
(* characters, followed by the port as the runtime prints it.               *)

DEFAULT_PORT == 3579
maxRetries == 3
\* server.listen throws ERR_SOCKET_BAD_PORT for a port above this one.
LastPort == 65535

\* String.prototype.includes
includes(s, sub) ==
    \E i \in 0..(Len(s) - Len(sub)) : SubSeq(s, i + 1, i + Len(sub)) = sub

S_EADDRINUSE == <<"E","A","D","D","R","I","N","U","S","E">>
S_addressInUse == <<"a","d","d","r","e","s","s"," ","a","l","r","e","a","d","y"," ","i","n"," ","u","s","e">>
S_portInUse == <<"p","o","r","t"," ","i","s"," ","a","l","r","e","a","d","y"," ","i","n"," ","u","s","e">>

\* isPortInUseError taking every Error for a port conflict.
isPortInUseErrorAnyError(error) == instanceofError(error)

isPortInUseError(error) ==
    IF instanceofError(error)
    THEN \/ includes(error.message, S_EADDRINUSE)
         \/ includes(error.message, S_addressInUse)
         \/ includes(error.message, S_portInUse)
    ELSE FALSE

\* options.port || DEFAULT_PORT, an absent port being 0
startPort(port) == IF port = 0 THEN DEFAULT_PORT ELSE port

StartCall(port) ==
    [port |-> port, currentPort |-> startPort(port), retries |-> 0, pc |-> "start",
     attempts |-> <<>>,     \* the ports server.listen was called with, in order
     failures |-> <<>>,     \* the code and the error of each attempt that failed
     listening |-> 0,       \* the port the server listens on, 0 when none
     error |-> NoError]     \* what startExpressServer threw

NoStartCall == [StartCall(0) EXCEPT !.pc = "idle"]

FailedToStartMsg(currentPort, error) ==
    <<"Failed to start server after ", Str(maxRetries),
      " attempts due to port conflicts. ", "Last attempted port: ",
      Str(currentPort), ". Error: ">> \o error.message

\* The test of the while loop and the body up to its await: createExpressServer
\* and server.listen(currentPort).
listen(s) ==
    IF s.retries < maxRetries
    THEN [s EXCEPT !.attempts = Append(@, s.currentPort), !.pc = "listening"]
    ELSE [s EXCEPT !.pc = "returned"]

\* The callback of server.listen: resolve(), and the return.
listenResolved(s) == [s EXCEPT !.listening = s.currentPort, !.pc = "returned"]

\* The retry test without the bound on the retries.
shouldRetryUnbounded(error, retries) == isPortInUseError(error)

\* isPortInUseError(error) && retries < maxRetries - 1
shouldRetry(error, retries) == isPortInUseError(error) /\ retries < maxRetries - 1

\* reject(err): the catch block, and the next pass of the loop or the throw.
listenRejected(s, code, error) ==
    LET s1 == [s EXCEPT !.failures = Append(@, [code |-> code, error |-> error])]
    IN  IF shouldRetry(error, s.retries)
        THEN listen([s1 EXCEPT !.retries = @ + 1, !.currentPort = @ + 1])
        ELSE IF isPortInUseError(error)
        THEN [s1 EXCEPT !.pc = "threw",
                        !.error = Error(FailedToStartMsg(s.currentPort, error))]
        ELSE [s1 EXCEPT !.pc = "threw", !.error = error]

----------------------------------------------------------------------------
(* index: runCommand, and runServer as far as the process is concerned. The *)
(* run is a record; process.exit ends it, nothing after the call runs.      *)

MISSING_AUTH_TOKEN_MESSAGE ==
    "Sentry authentication token not found. Please specify your Sentry auth token."

\* a || b of two strings that may be undefined (null here)
firstTruthy(a, b) == IF Truthy(a) THEN a ELSE b

Command(t, token, sse, port) ==
    [t |-> t,                   \* argv.t, null when the flag is absent
     SENTRY_TOKEN |-> token,    \* process.env.SENTRY_TOKEN, null when unset
     sse |-> sse, port |-> port,
     pc |-> "start",
     authToken |-> Null,        \* what runServer was called with
     stderr |-> <<>>,           \* the first argument of each console.error
     exited |-> FALSE, exitCode |-> 0,
     servers |-> <<>>]          \* the servers and transports made, in order

NoCommand == [Command(Null, Null, FALSE, 0) EXCEPT !.pc = "idle"]

\* console.error(message); process.exit(code)
exitWith(c, message, code) ==
    [c EXCEPT !.stderr = Append(@, message), !.exited = TRUE, !.exitCode = code,
              !.pc = "exited"]

\* runServer over stdio, up to the await of server.connect.
runServerStdio(c, authToken) ==
    [c EXCEPT !.authToken = authToken,
              !.servers = @ \o <<"createServer", "StdioServerTransport", "connect">>,
              !.pc = "connecting"]

\* runServer over SSE, up to the await of startExpressServer.
runServerSse(c, authToken) ==
    [c EXCEPT !.authToken = authToken,
              !.servers = @ \o <<"createServer", "startExpressServer">>,
              !.pc = "startingExpress"]

runServer(c, authToken) ==
    IF c.sse THEN runServerSse(c, authToken) ELSE runServerStdio(c, authToken)

\* runCommand calling runServer before it looks at the token.
runCommandServerFirst(c) ==
    LET authToken == firstTruthy(c.t, c.SENTRY_TOKEN)
    IN  IF ~Truthy(authToken)
        THEN exitWith(runServer(c, authToken), MISSING_AUTH_TOKEN_MESSAGE, 1)
        ELSE runServer(c, authToken)

\* runCommand, up to the await of runServer or the exit.
runCommand(c) ==
    LET authToken == firstTruthy(c.t, c.SENTRY_TOKEN)
    IN  IF ~Truthy(authToken) THEN exitWith(c, MISSING_AUTH_TOKEN_MESSAGE, 1)
        ELSE runServer(c, authToken)

\* server.connect or startExpressServer resolved: runCommand returns.
serverStarted(c) == [c EXCEPT !.pc = "serving"]

\* server.connect rejected: the catch of runServer.
connectFailed(c) == exitWith(c, "Server error:", 1)

\* startExpressServer threw: the catch of runCommand.
startFailed(c) == exitWith(c, "Error:", 1)

----------------------------------------------------------------------------
(* The inputs the functions are called with. An input is written from      *)
(* parts (an origin, path segments, query parameters), and the functions   *)
(* are given its characters only.                                          *)

SeqsUpTo(S, n) == UNION {[1..k -> S] : k \in 0..n}

\* The text of a path: "/" before every segment.
RenderPath(segs) == Flatten([i \in 1..Len(segs) |-> <<"/">> \o segs[i]])

\* The text of a query string: "?" and the parameters joined by "&".
RECURSIVE JoinParams(_)
JoinParams(params) ==
    IF params = <<>> THEN <<>>
    ELSE params[1].text \o (IF Len(params) > 1 THEN <<"&">> ELSE <<>>)
         \o JoinParams(Tail(params))

RenderQuery(params) == IF params = <<>> THEN <<>> ELSE <<"?">> \o JoinParams(params)

RenderOrigin(o) == o.scheme \o <<":", "/", "/">> \o o.authority

\* Origins: scheme, authority as written, and the host a URL parser reads in it.
OriginPlain == [scheme |-> S_https, authority |-> <<"h">>, host |-> <<"h">>, valid |-> TRUE]
OriginUserPort ==
    [scheme |-> S_http, authority |-> <<"u","@","h",":","8","0","8","0">>,
     host |-> <<"h",":","8","0","8","0">>, valid |-> TRUE]
\* A space is no host character: new URL throws on it.
OriginBadHost == [scheme |-> S_https, authority |-> <<"h"," ","h">>, host |-> <<>>, valid |-> FALSE]

NoOrigin == [scheme |-> <<>>, authority |-> <<>>, host |-> <<>>, valid |-> FALSE]

(* Inputs of extractIssueId. *)

BareChars == {"5", "0", "a", "/"}
IdSegTokens == {S_issues, <<"5">>, <<"x">>, <<>>, <<".", ".">>}
IdOrigins == {OriginPlain, OriginUserPort, OriginBadHost}
IdTails == {<<>>, <<"?","a","=","1">>, <<"#","f">>}

\* Origins that are not written http:// or https://: another scheme, the
\* scheme in capitals, and none at all (a host-relative path).
OriginFtp == [scheme |-> S_ftp, authority |-> <<"h">>, host |-> <<"h">>, valid |-> TRUE]
OriginUpper ==
    [scheme |-> <<"H","T","T","P">>, authority |-> <<"h">>, host |-> <<"h">>, valid |-> TRUE]
OtherOrigins == {OriginFtp, OriginUpper, NoOrigin}

IdInputs ==
    {[kind |-> "bare", bare |-> b, origin |-> NoOrigin, segs |-> <<>>, tail |-> <<>>] :
        b \in SeqsUpTo(BareChars, MaxBare)}
    \cup
    {[kind |-> "url", bare |-> <<>>, origin |-> o, segs |-> sg, tail |-> t] :
        o \in IdOrigins, sg \in SeqsUpTo(IdSegTokens, MaxSegs), t \in IdTails}
    \cup
    {[kind |-> "other", bare |-> <<>>, origin |-> o, segs |-> sg, tail |-> <<>>] :
        o \in OtherOrigins, sg \in SeqsUpTo(IdSegTokens, MaxOtherSegs)}

RenderId(in) ==
    IF in.kind = "bare" THEN in.bare
    ELSE IF in.origin = NoOrigin THEN RenderPath(in.segs) \o in.tail
    ELSE RenderOrigin(in.origin) \o RenderPath(in.segs) \o in.tail

(* Inputs of extractIssuesApiUrl. A parameter is its text in the URL, with  *)
(* the name and the value that text stands for.                             *)

ParamProject7 == [name |-> S_project, value |-> <<"7">>, text |-> <<"p","r","o","j","e","c","t","=","7">>]
ParamProjectEmpty == [name |-> S_project, value |-> <<>>, text |-> <<"p","r","o","j","e","c","t","=">>]
ParamQueryEsc ==
    [name |-> S_query, value |-> <<"a",":","b"," ","c">>,
     text |-> <<"q","u","e","r","y","=","a","%","3","A","b","+","c">>]
ParamQueryEmpty == [name |-> S_query, value |-> <<>>, text |-> <<"q","u","e","r","y","=">>]
ParamLimit9 == [name |-> S_limit, value |-> <<"9">>, text |-> <<"l","i","m","i","t","=","9">>]
ParamOther == [name |-> <<"x">>, value |-> <<"1">>, text |-> <<"x","=","1">>]

ParamTokens == {ParamProject7, ParamProjectEmpty, ParamQueryEsc, ParamQueryEmpty,
                ParamLimit9, ParamOther}
UrlSegTokens == {S_organizations, S_projects, <<"o">>, <<"p">>}
UrlOrigins == {OriginPlain, OriginUserPort}

\* The web-style and the API-style path of the tests, and two more.
WebPath == <<S_organizations, <<"o">>, S_projects, <<"p">>, <<>>>>
ApiPath == <<<<"a","p","i">>, <<"0">>, S_organizations, <<"o">>, S_issues, <<>>>>
FewPaths == {WebPath, ApiPath, <<<<>>, S_organizations, <<>>, <<"o">>>>, <<S_projects, <<"p">>>>}
FewParams == {<<>>, <<ParamProject7>>, <<ParamProjectEmpty, ParamQueryEsc>>}

\* Arguments that are no URL: the empty string, a word, a URL without a host.
RawUrls == {<<>>, <<"o">>, <<"h","t","t","p","s",":","/","/">>}

UrlInputs ==
    {[kind |-> "raw", raw |-> r, origin |-> NoOrigin, segs |-> <<>>, params |-> <<>>] :
        r \in RawUrls}
    \cup
    {[kind |-> "url", raw |-> <<>>, origin |-> o, segs |-> sg, params |-> ps] :
        o \in UrlOrigins, sg \in SeqsUpTo(UrlSegTokens, MaxSegs), ps \in FewParams}
    \cup
    {[kind |-> "url", raw |-> <<>>, origin |-> o, segs |-> sg, params |-> ps] :
        o \in UrlOrigins, sg \in FewPaths, ps \in SeqsUpTo(ParamTokens, MaxParams)}

RenderUrl(in) ==
    IF in.kind = "raw" THEN in.raw
    ELSE RenderOrigin(in.origin) \o RenderPath(in.segs) \o RenderQuery(in.params)

(* Inputs of findMostTriggeredIssue: the id of an issue is its place in the list. *)

ListItem(i, c) ==
    [id |-> i, title |-> "title", issueType |-> "error", level |-> "error",
     userCount |-> c, lastSeen |-> "2024-01-02", count |-> c + 1]

ListInputs ==
    {[i \in 1..n |-> ListItem(i, c[i])] :
        n \in 0..0, c \in {<<>>}}
    \cup
    UNION {{[i \in 1..n |-> ListItem(i, c[i])] :
              c \in [1..n -> 0..MaxUserCount]} : n \in 1..MaxIssues}

(* Inputs of createStacktrace: events of up to MaxEntries entries. *)

NoContext == <<>>
FrameFull == [filename |-> "app.js", lineNo |-> 10, function |-> "run",
              context |-> <<<<9, "a()">>, <<10, "b()">>>>]
\* The frame of the unit test: its line is under lineno, so lineNo is absent.
FrameTest == [filename |-> "test.js", lineNo |-> 0, lineno |-> 10,
              function |-> "testFunction", context |-> NoContext]
FrameBare == [filename |-> "", lineNo |-> 0, function |-> "", context |-> NoContext]

AbsentStacktrace == [present |-> FALSE, frames |-> <<>>]
Stacktrace(frames) == [present |-> TRUE, frames |-> frames]

ExceptionTest == [type |-> "Error", value |-> "Test error",
                  stacktrace |-> Stacktrace(<<FrameTest>>)]
ExceptionFull == [type |-> "TypeError", value |-> "boom",
                  stacktrace |-> Stacktrace(<<FrameFull, FrameBare>>)]
ExceptionBare == [type |-> "", value |-> "", stacktrace |-> AbsentStacktrace]
ExceptionNoFrames == [type |-> "E", value |-> "", stacktrace |-> Stacktrace(<<>>)]

Entry(type, values) == [type |-> type, data |-> [values |-> values]]

EntryTokens ==
    {Entry("exception", <<ExceptionTest>>),
     Entry("exception", <<ExceptionBare, ExceptionFull>>),
     Entry("exception", <<ExceptionNoFrames>>),
     Entry("exception", <<>>),
     Entry("message", <<>>),
     Entry("breadcrumbs", <<[type |-> "default", value |-> "",
                            stacktrace |-> AbsentStacktrace]>>)}

\* An event without entries is the event whose entries are [].
EventInputs == {[entries |-> e] : e \in SeqsUpTo(EntryTokens, MaxEntries)}

(* Inputs of the envelopes: issues and lists of issues. *)

IssueDataInputs ==
    {SentryIssueData(title, issueId, status, "error", "2024-01-01", "2024-01-02",
                     count, trace) :
        title \in {"", "TypeError: boom"},
        issueId \in {<<"5">>, <<"0", "7">>},
        status \in {"unresolved", "resolved"},
        count \in {"1", "42"},
        trace \in {NoStacktraceFound,
                   createStacktrace([entries |-> <<Entry("exception", <<ExceptionTest>>)>>])}}

EnvListInputs == {l \in ListInputs : \A i \in 1..Len(l) : l[i].userCount <= 1}

(* Inputs of the handlers: the arguments of a request, and what the        *)
(* upstream answers to a GET.                                               *)

IssueUrl(segs) ==
    RenderId([kind |-> "url", bare |-> <<>>, origin |-> OriginPlain,
              segs |-> segs, tail |-> <<>>])

IssueArgs ==
    {<<"5">>, <<"0", "7">>, <<>>, <<"a">>,
     IssueUrl(<<<<"o">>, S_issues, <<"5">>, <<>>>>), IssueUrl(<<<<"x">>>>)}

ListUrl(segs, params) ==
    RenderUrl([kind |-> "url", raw |-> <<>>, origin |-> OriginPlain,
               segs |-> segs, params |-> params])

ListArgs ==
    {ListUrl(WebPath, <<>>), ListUrl(ApiPath, <<ParamProject7>>),
     <<>>, ListUrl(<<S_projects, <<"p">>>>, <<>>), ListUrl(ApiPath, <<>>)}

RequestInputs ==
    {NewRequest(name, arg) : name \in IssueNames, arg \in IssueArgs}
    \cup {NewRequest(name, arg) : name \in ListNames, arg \in ListArgs}

\* The statuses with which a GET fails: axios rejects.
FailureStatuses == {Unauthorized, ServerError, NoStatus}
Failures == {Response(status, NullBody) : status \in FailureStatuses}

IssueFields == [title |-> "TypeError: boom", status |-> "unresolved",
                level |-> "error", firstSeen |-> "2024-01-01",
                lastSeen |-> "2024-01-02", count |-> "42"]

IssueResponses ==
    Failures \cup {Response(OK, ObjectBody(IssueFields)), Response(OK, NullBody)}

Hash(event) == [latestEvent |-> event]
EventEmpty == [entries |-> <<>>]
EventTest == [entries |-> <<Entry("exception", <<ExceptionTest>>)>>]

HashesResponses ==
    Failures
    \cup {Response(OK, NullBody), Response(OK, ObjectBody(NoFields)),
          Response(OK, ArrayBody(<<>>)),
          Response(OK, ArrayBody(<<Hash(UndefinedEvent)>>)),
          Response(OK, ArrayBody(<<Hash(EventEmpty)>>)),
          Response(OK, ArrayBody(<<Hash(EventTest), Hash(EventEmpty)>>))}

\* userCount and count as the upstream gives them, as the strings they
\* convert to.
RawCounts ==
    {[userCount |-> <<"3">>, count |-> <<"4", "2">>],
     [userCount |-> <<"0">>, count |-> <<>>],
     [userCount |-> <<"1", "2">>, count |-> <<" ", "7", "x">>],
     [userCount |-> <<"-", "1">>, count |-> <<"a">>]}

RawIssue(i, c) ==
    [id |-> i, title |-> "title", issueType |-> "error", level |-> "error",
     userCount |-> c.userCount, lastSeen |-> "2024-01-02", count |-> c.count]

UpstreamLists ==
    UNION {{[i \in 1..n |-> RawIssue(i, c[i])] : c \in [1..n -> RawCounts]} :
             n \in 0..MaxUpstream}

ListResponses ==
    Failures
    \cup {Response(OK, NullBody), Response(OK, ObjectBody(NoFields))}
    \cup {Response(OK, ArrayBody(items)) : items \in UpstreamLists}

(* Inputs of startExpressServer: options.port, 0 when absent, and what    *)
(* server.listen(port) can end with.                                        *)

StartPorts ==
    {0, 80, 443, 3000, DEFAULT_PORT, 8080, 8443, LastPort - 2, LastPort - 1, LastPort}

AddrInUse(port) ==
    [code |-> "EADDRINUSE",
     error |-> Error(<<"l","i","s","t","e","n"," ","E","A","D","D","R","I","N","U","S","E",":"," ","a","d","d","r","e","s","s"," ","a","l","r","e","a","d","y"," ","i","n"," ","u","s","e"," ",":",":",":">> \o <<Str(port)>>)]
Eacces(port) ==
    [code |-> "EACCES",
     error |-> Error(<<"l","i","s","t","e","n"," ","E","A","C","C","E","S",":"," ","p","e","r","m","i","s","s","i","o","n"," ","d","e","n","i","e","d"," ","0",".","0",".","0",".","0",":">> \o <<Str(port)>>)]
AddrNotAvail(port) ==
    [code |-> "EADDRNOTAVAIL",
     error |-> Error(<<"l","i","s","t","e","n"," ","E","A","D","D","R","N","O","T","A","V","A","I","L",":"," ","a","d","d","r","e","s","s"," ","n","o","t"," ","a","v","a","i","l","a","b","l","e"," ",":",":",":">> \o <<Str(port)>>)]
BadPort(port) ==
    [code |-> "ERR_SOCKET_BAD_PORT",
     error |-> RangeError(<<"o","p","t","i","o","n","s",".","p","o","r","t"," ","s","h","o","u","l","d"," ","b","e"," ",">","="," ","0"," ","a","n","d"," ","<"," ","6","5","5","3","6","."," ","R","e","c","e","i","v","e","d"," ">>
                          \o <<Str(port)>>)]

\* A port above LastPort is refused before any bind.
CanBind(port) == port <= LastPort

ListenErrors(port) ==
    IF CanBind(port) THEN {AddrInUse(port), Eacces(port), AddrNotAvail(port)}
    ELSE {BadPort(port)}

(* Inputs of runCommand: the flags and the environment of the process. *)

FlagTokens == {Null, <<>>, <<"t">>}
EnvTokens == {Null, <<>>, <<"e">>}
CommandPorts == {DEFAULT_PORT, 3000, 8080}

CommandInputs ==
    {Command(t, token, sse, port) :
        t \in FlagTokens, token \in EnvTokens, sse \in BOOLEAN, port \in CommandPorts}

(* Inputs of the requests in flight, and what the upstream answers them. *)

ConcurrentInputs ==
    {NewRequest("get_sentry_issue", <<"5">>),
     NewRequest("sentry-issue", <<"7">>),
     NewRequest("get_sentry_issues_list", ListUrl(WebPath, <<>>)),
     NewRequest("most-triggered-issue", ListUrl(ApiPath, <<ParamProject7>>))}

ResponsesAt(r) ==
    CASE r.pc = "awaitIssue" ->
            {Response(ServerError, NullBody), Response(OK, ObjectBody(IssueFields))}
      [] r.pc = "awaitHashes" ->
            {Response(OK, ArrayBody(<<>>)), Response(OK, ArrayBody(<<Hash(EventTest)>>))}
      [] r.pc = "awaitList" ->
            {Response(Unauthorized, NullBody),
             Response(OK, ArrayBody(<<RawIssue(1, [userCount |-> <<"3">>,
                                                    count |-> <<"a">>])>>))}
      [] OTHER -> {}

----------------------------------------------------------------------------
(* The state machines: one call of each function on an input. *)

IdleList == /\ issues = <<>> /\ listArg = <<>>
            /\ mostTriggered = NullIssue /\ listPc = "idle"
            /\ mostTriggeredPrompt = NoResult

IdleId == /\ idIn = [kind |-> "bare", bare |-> <<>>, origin |-> NoOrigin,
                     segs |-> <<>>, tail |-> <<>>]
          /\ issueIdOrUrl = <<>> /\ idResult = NotCalled /\ idPc = "idle"

IdleUrl == /\ urlIn = [kind |-> "raw", raw |-> <<>>, origin |-> NoOrigin,
                       segs |-> <<>>, params |-> <<>>]
           /\ url = <<>> /\ urlResult = NotCalled /\ urlResult2 = NotCalled
           /\ urlPc = "idle"

IdleTrace == /\ latestEvent = [entries |-> <<>>] /\ stacktrace = <<>>
             /\ tracePc = "idle"

IdleEnv == /\ envIssue = NoIssueData /\ envIssues = <<>>
           /\ envPrompt = NoResult /\ envTool = NoToolResult
           /\ envListTool = NoToolResult

IdleReq == req = NoRequest

\* No Express server: also the state of one that was just created.
IdleSse == /\ sseTransport = Undefined /\ transports = <<>> /\ posts = <<>>

IdleStart == start = NoStartCall

IdleCmd == cmd = NoCommand

IdleReqs == reqs = NoRequests

IdleExceptList == IdleId /\ IdleUrl /\ IdleTrace /\ IdleEnv /\ IdleReq /\ IdleSse /\ IdleStart /\ IdleCmd /\ IdleReqs
IdleExceptId == IdleList /\ IdleUrl /\ IdleTrace /\ IdleEnv /\ IdleReq /\ IdleSse /\ IdleStart /\ IdleCmd /\ IdleReqs
IdleExceptUrl == IdleList /\ IdleId /\ IdleTrace /\ IdleEnv /\ IdleReq /\ IdleSse /\ IdleStart /\ IdleCmd /\ IdleReqs
IdleExceptTrace == IdleList /\ IdleId /\ IdleUrl /\ IdleEnv /\ IdleReq /\ IdleSse /\ IdleStart /\ IdleCmd /\ IdleReqs
IdleExceptEnv == IdleList /\ IdleId /\ IdleUrl /\ IdleTrace /\ IdleReq /\ IdleSse /\ IdleStart /\ IdleCmd /\ IdleReqs
IdleExceptReq == IdleList /\ IdleId /\ IdleUrl /\ IdleTrace /\ IdleEnv /\ IdleSse /\ IdleStart /\ IdleCmd /\ IdleReqs
IdleExceptSse == IdleList /\ IdleId /\ IdleUrl /\ IdleTrace /\ IdleEnv /\ IdleReq /\ IdleStart /\ IdleCmd /\ IdleReqs
IdleExceptStart == IdleList /\ IdleId /\ IdleUrl /\ IdleTrace /\ IdleEnv /\ IdleReq /\ IdleSse /\ IdleCmd /\ IdleReqs
IdleExceptCmd == IdleList /\ IdleId /\ IdleUrl /\ IdleTrace /\ IdleEnv /\ IdleReq /\ IdleSse /\ IdleStart /\ IdleReqs
IdleExceptReqs == IdleList /\ IdleId /\ IdleUrl /\ IdleTrace /\ IdleEnv /\ IdleReq /\ IdleSse /\ IdleStart /\ IdleCmd

(* new SentryIssuesListData(issues): findMostTriggeredIssue(), and then   *)
(* toMostTriggeredPromptResult(), which calls findMostTriggeredIssue anew. *)

InitList ==
    /\ issues \in ListInputs
    /\ listArg = issues
    /\ mostTriggered = NullIssue
    /\ mostTriggeredPrompt = NoResult
    /\ listPc = "start"
    /\ IdleExceptList

FindMostTriggeredIssue ==
    /\ listPc = "start"
    /\ mostTriggered' = findMostTriggeredIssue(issues)
    /\ listPc' = "done"
    /\ UNCHANGED <<issues, listArg, mostTriggeredPrompt>>
    /\ UNCHANGED exceptList

ToMostTriggeredPromptResult ==
    /\ listPc = "done"
    /\ mostTriggeredPrompt' = toMostTriggeredPromptResult(issues)
    /\ listPc' = "prompted"
    /\ UNCHANGED <<issues, listArg, mostTriggered>>
    /\ UNCHANGED exceptList

NextList == FindMostTriggeredIssue \/ ToMostTriggeredPromptResult

SpecList == InitList /\ [][NextList]_vars

(* extractIssueId(issueIdOrUrl) *)

InitId ==
    /\ idIn \in IdInputs
    /\ issueIdOrUrl = RenderId(idIn)
    /\ idResult = NotCalled
    /\ idPc = "start"
    /\ IdleExceptId

ExtractIssueId ==
    /\ idPc = "start"
    /\ idResult' = extractIssueId(issueIdOrUrl)
    /\ idPc' = "done"
    /\ UNCHANGED <<idIn, issueIdOrUrl>>
    /\ UNCHANGED exceptId

NextId == ExtractIssueId

SpecId == InitId /\ [][NextId]_vars

(* extractIssuesApiUrl(url), and extractIssuesApiUrl of what it returned *)

InitUrl ==
    /\ urlIn \in UrlInputs
    /\ url = RenderUrl(urlIn)
    /\ urlResult = NotCalled
    /\ urlResult2 = NotCalled
    /\ urlPc = "start"
    /\ IdleExceptUrl

ExtractIssuesApiUrl ==
    /\ urlPc = "start"
    /\ urlResult' = extractIssuesApiUrl(url)
    /\ urlPc' = "once"
    /\ UNCHANGED <<urlIn, url, urlResult2>>
    /\ UNCHANGED exceptUrl

ExtractIssuesApiUrlAgain ==
    /\ urlPc = "once"
    /\ urlResult.ok
    /\ urlResult2' = extractIssuesApiUrl(urlResult.val)
    /\ urlPc' = "twice"
    /\ UNCHANGED <<urlIn, url, urlResult>>
    /\ UNCHANGED exceptUrl

NextUrl == ExtractIssuesApiUrl \/ ExtractIssuesApiUrlAgain

SpecUrl == InitUrl /\ [][NextUrl]_vars

(* createStacktrace(latestEvent) *)

InitTrace ==
    /\ latestEvent \in EventInputs
    /\ stacktrace = <<>>
    /\ tracePc = "start"
    /\ IdleExceptTrace

CreateStacktrace ==
    /\ tracePc = "start"
    /\ stacktrace' = createStacktrace(latestEvent)
    /\ tracePc' = "done"
    /\ UNCHANGED latestEvent
    /\ UNCHANGED exceptTrace

NextTrace == CreateStacktrace

SpecTrace == InitTrace /\ [][NextTrace]_vars

(* The envelopes of a SentryIssueData and of a SentryIssuesListData, each *)
(* asked for once, in any order.                                           *)

InitEnvelope ==
    /\ envIssue \in IssueDataInputs
    /\ envIssues \in EnvListInputs
    /\ envPrompt = NoResult
    /\ envTool = NoToolResult
    /\ envListTool = NoToolResult
    /\ IdleExceptEnv

ToPromptResult ==
    /\ envPrompt = NoResult
    /\ envPrompt' = toPromptResult(envIssue)
    /\ UNCHANGED <<envIssue, envIssues, envTool, envListTool>>
    /\ UNCHANGED exceptEnv

ToToolResult ==
    /\ envTool = NoToolResult
    /\ envTool' = toToolResult(envIssue)
    /\ UNCHANGED <<envIssue, envIssues, envPrompt, envListTool>>
    /\ UNCHANGED exceptEnv

ListToToolResult ==
    /\ envListTool = NoToolResult
    /\ envListTool' = toToolResultList(envIssues)
    /\ UNCHANGED <<envIssue, envIssues, envPrompt, envTool>>
    /\ UNCHANGED exceptEnv

NextEnvelope == ToPromptResult \/ ToToolResult \/ ListToToolResult

SpecEnvelope == InitEnvelope /\ [][NextEnvelope]_vars

(* One request to a registered handler, and the upstream's answers. *)

InitRequest ==
    /\ req \in RequestInputs
    /\ IdleExceptReq

HandleSentryIssue ==
    /\ req.pc = "start"
    /\ req.name \in IssueNames
    /\ req' = handleSentryIssue(req)
    /\ UNCHANGED exceptReq

IssueResponse ==
    /\ req.pc = "awaitIssue"
    /\ \E issueResponse \in IssueResponses :
            req' = afterIssueResponse(req, issueResponse)
    /\ UNCHANGED exceptReq

HashesResponse ==
    /\ req.pc = "awaitHashes"
    /\ \E hashesResponse \in HashesResponses :
            req' = afterHashesResponse(req, hashesResponse)
    /\ UNCHANGED exceptReq

HandleSentryIssuesList ==
    /\ req.pc = "start"
    /\ req.name \in ListNames
    /\ req' = handleSentryIssuesList(req)
    /\ UNCHANGED exceptReq

ListResponse ==
    /\ req.pc = "awaitList"
    /\ \E response \in ListResponses :
            req' = afterListResponse(req, response)
    /\ UNCHANGED exceptReq

Respond ==
    /\ req.pc = "returned"
    /\ req' = respond(req)
    /\ UNCHANGED exceptReq

NextRequest ==
    \/ HandleSentryIssue \/ IssueResponse \/ HashesResponse
    \/ HandleSentryIssuesList \/ ListResponse \/ Respond

SpecRequest == InitRequest /\ [][NextRequest]_vars

(* The Express server: GET /sse, the outcome of its connect, clients that *)
(* go away, and POST /messages.                                            *)

InitSse ==
    /\ sseTransport = Undefined
    /\ transports = <<>>
    /\ posts = <<>>
    /\ IdleExceptSse

\* GET /sse up to the await: the slot is overwritten with a new transport.
GetSse ==
    /\ Len(transports) < MaxStreams
    /\ transports' = Append(transports, NewTransport)
    /\ sseTransport' = Len(transports) + 1
    /\ UNCHANGED posts
    /\ UNCHANGED exceptSse

\* mcpServer.connect resolved: the handler of transport k ends.
ConnectResolved ==
    /\ \E k \in 1..Len(transports) :
            /\ transports[k].handler = "awaiting"
            /\ transports' =
                  [transports EXCEPT ![k].handler = "done",
                      ![k].stream = IF @ = "opening" THEN "open" ELSE @]
    /\ UNCHANGED <<sseTransport, posts>>
    /\ UNCHANGED exceptSse

\* mcpServer.connect rejected: the catch closes what the slot holds now and
\* clears the slot.
ConnectRejected ==
    /\ \E k \in 1..Len(transports) :
            /\ transports[k].handler = "awaiting"
            /\ transports' =
                  [closeSlot(transports, sseTransport) EXCEPT
                      ![k].handler = "done", ![k].failedAt = Len(transports)]
    /\ sseTransport' = Undefined
    /\ UNCHANGED posts
    /\ UNCHANGED exceptSse

\* The client of stream k goes away; no handler of the server runs.
ClientDisconnect ==
    /\ \E k \in OpenStreams(transports) :
            transports' = [transports EXCEPT ![k].stream = "closed"]
    /\ UNCHANGED <<sseTransport, posts>>
    /\ UNCHANGED exceptSse

PostMessages ==
    /\ Len(posts) < MaxPosts
    /\ posts' = Append(posts, postMessages(transports, sseTransport))
    /\ UNCHANGED <<sseTransport, transports>>
    /\ UNCHANGED exceptSse

NextSse ==
    \/ GetSse \/ ConnectResolved \/ ConnectRejected
    \/ ClientDisconnect \/ PostMessages

SpecSse == InitSse /\ [][NextSse]_vars

(* startExpressServer(mcpServer, options), and what server.listen ends with. *)

InitStart ==
    /\ start \in {StartCall(port) : port \in StartPorts}
    /\ IdleExceptStart

\* The call, up to the first await.
StartExpressServer ==
    /\ start.pc = "start"
    /\ start' = listen(start)
    /\ UNCHANGED exceptStart

ListenResolved ==
    /\ start.pc = "listening"
    /\ CanBind(start.currentPort)
    /\ start' = listenResolved(start)
    /\ UNCHANGED exceptStart

ListenRejected ==
    /\ start.pc = "listening"
    /\ \E failure \in ListenErrors(start.currentPort) :
            start' = listenRejected(start, failure.code, failure.error)
    /\ UNCHANGED exceptStart

NextStart == StartExpressServer \/ ListenResolved \/ ListenRejected

SpecStart == InitStart /\ [][NextStart]_vars

\* The runtime always ends a listen, with the callback or with an error.
SpecStartFair == SpecStart /\ WF_vars(NextStart)

(* One run of the process: runCommand, and what the start of the server   *)
(* ends with.                                                               *)

InitCommand ==
    /\ cmd \in CommandInputs
    /\ IdleExceptCmd

RunCommand ==
    /\ cmd.pc = "start"
    /\ cmd' = runCommand(cmd)
    /\ UNCHANGED exceptCmd

ServerConnected ==
    /\ cmd.pc = "connecting"
    /\ cmd' = serverStarted(cmd)
    /\ UNCHANGED exceptCmd

ServerConnectFailed ==
    /\ cmd.pc = "connecting"
    /\ cmd' = connectFailed(cmd)
    /\ UNCHANGED exceptCmd

ExpressStarted ==
    /\ cmd.pc = "startingExpress"
    /\ cmd' = serverStarted(cmd)
    /\ UNCHANGED exceptCmd

ExpressStartFailed ==
    /\ cmd.pc = "startingExpress"
    /\ cmd' = startFailed(cmd)
    /\ UNCHANGED exceptCmd

NextCommand ==
    \/ RunCommand \/ ServerConnected \/ ServerConnectFailed
    \/ ExpressStarted \/ ExpressStartFailed

SpecCommand == InitCommand /\ [][NextCommand]_vars

(* Up to MaxInFlight requests to the registered callbacks, their upstream   *)
(* answers arriving in any order.                                           *)

InitConcurrent ==
    /\ reqs = NoRequests
    /\ IdleExceptReqs

Call ==
    /\ Len(reqs.calls) < MaxInFlight
    /\ \E r \in ConcurrentInputs : reqs' = call(reqs, r)
    /\ UNCHANGED exceptReqs

Resume ==
    /\ \E i \in 1..Len(reqs.calls) :
          \E response \in ResponsesAt(reqs.calls[i]) :
              reqs' = resume(reqs, i, response)
    /\ UNCHANGED exceptReqs

Reply ==
    /\ \E i \in 1..Len(reqs.calls) :
          /\ reqs.calls[i].pc = "returned"
          /\ reqs' = reply(reqs, i)
    /\ UNCHANGED exceptReqs

NextConcurrent == Call \/ Resume \/ Reply

SpecConcurrent == InitConcurrent /\ [][NextConcurrent]_vars

----------------------------------------------------------------------------
(* Claims about findMostTriggeredIssue, under SpecList. *)

\* C1: on a non-empty list findMostTriggeredIssue returns an element of the
\* list whose userCount is at least that of every element, the one of smallest
\* index among those of greatest userCount, and the list is left as it was.
C1_FirstMaximum ==
    (listPc = "done" /\ Len(listArg) > 0) =>
        /\ issues = listArg
        /\ \E i \in 1..Len(listArg) :
            /\ mostTriggered = listArg[i]
            /\ \A j \in 1..Len(listArg) : listArg[j].userCount <= listArg[i].userCount
            /\ \A j \in 1..(i - 1) : listArg[j].userCount < listArg[i].userCount

\* The greatest userCount occurs twice, after a smaller one: the spec's example.
C1_Witness ==
    /\ listPc = "done"
    /\ Len(listArg) = 3
    /\ listArg[1].userCount < listArg[2].userCount
    /\ listArg[2].userCount = listArg[3].userCount
    /\ mostTriggered.id = 2

\* C16: findMostTriggeredIssue returns null exactly when the list is empty,
\* and toMostTriggeredPromptResult of an empty list returns, rather than
\* fails with, the one user-role text message "No issues were found in the
\* list."; of a non-empty list it returns another text.
C16_NoneIffEmpty ==
    /\ (listPc \in {"done", "prompted"}) =>
            ((mostTriggered = NullIssue) <=> (Len(listArg) = 0))
    /\ (listPc = "prompted") =>
            /\ Len(mostTriggeredPrompt.messages) = 1
            /\ mostTriggeredPrompt.messages[1].role = "user"
            /\ mostTriggeredPrompt.messages[1].content.type = "text"
            /\ (mostTriggeredPrompt.messages[1].content.text = NoIssuesText)
                    <=> (Len(listArg) = 0)

\* The empty list was asked for its most triggered issue and for the prompt.
C16_Witness ==
    /\ listPc = "prompted"
    /\ Len(listArg) = 0
    /\ mostTriggered = NullIssue
    /\ mostTriggeredPrompt.messages[1].content.text = NoIssuesText

----------------------------------------------------------------------------
(* Claims about extractIssueId, under SpecId. The claims speak of the parts *)
(* the argument was written from; the function saw its characters only.     *)

IdDone == idPc = "done"

Threw(r) == ~r.ok /\ r.kind = "SentryError"

DecimalOnly(s) == s # <<>> /\ \A i \in 1..Len(s) : s[i] \in Digits

\* The path a URL with these segments has: ".." takes back the segment before it.
RECURSIVE ResolveDots(_, _)
ResolveDots(segs, acc) ==
    IF segs = <<>> THEN acc
    ELSE IF Head(segs) = <<".", ".">>
    THEN ResolveDots(Tail(segs), IF acc = <<>> THEN acc ELSE SubSeq(acc, 1, Len(acc) - 1))
    ELSE ResolveDots(Tail(segs), Append(acc, Head(segs)))

\* The non-empty path segments of the URL the input is.
PathSegments(in) == SelectSeq(ResolveDots(in.segs, <<>>), NonEmptyString)

\* The path as written ends in /issues/{n} or /issues/{n}/.
EndsWithIssue(segs, n) ==
    LET k == Len(segs)
    IN  \/ k >= 2 /\ segs[k - 1] = S_issues /\ segs[k] = n
        \/ k >= 3 /\ segs[k] = <<>> /\ segs[k - 2] = S_issues /\ segs[k - 1] = n

\* C7: whatever the argument, extractIssueId returns a non-empty string of
\* decimal digits or throws a SentryError, and it throws on the empty string.
C7_NumericOrError ==
    IdDone =>
        /\ idResult.ok => DecimalOnly(idResult.val)
        /\ ~idResult.ok => Threw(idResult)
        /\ issueIdOrUrl = <<>> => Threw(idResult)

\* An identifier was returned from a URL that carries a query string.
C7_Witness ==
    /\ IdDone /\ idIn.kind = "url" /\ idIn.tail # <<>> /\ idIn.origin = OriginUserPort
    /\ idResult.ok /\ DecimalOnly(idResult.val)

\* C8: a non-empty string of decimal digits is returned as it is.
C8_NumericUnchanged ==
    (IdDone /\ idIn.kind = "bare" /\ DecimalOnly(idIn.bare)) =>
        idResult = Return(idIn.bare)

\* A number with a leading zero came back in full.
C8_Witness ==
    /\ IdDone /\ idIn.kind = "bare" /\ Len(idIn.bare) = MaxBare
    /\ idIn.bare[1] = "0" /\ DecimalOnly(idIn.bare)
    /\ idResult.ok /\ idResult.val = issueIdOrUrl

\* C9: an http:// or https:// URL whose path ends in /issues/{n} or
\* /issues/{n}/, n numeric, gives n, whatever its host, the segments before,
\* its query string or its fragment.
C9_IssueUrlGivesId ==
    IdDone =>
        \A n \in IdSegTokens :
            (/\ idIn.kind = "url" /\ idIn.origin.valid
             /\ DecimalOnly(n) /\ EndsWithIssue(idIn.segs, n))
            => idResult = Return(n)

\* /x/issues/5/ with a trailing slash and a tail, on the host with a port.
C9_Witness ==
    /\ IdDone /\ idIn.kind = "url" /\ idIn.origin = OriginUserPort
    /\ idIn.segs = <<<<"x">>, S_issues, <<"5">>, <<>>>> /\ idIn.tail # <<>>
    /\ idResult = Return(<<"5">>)

\* C26: an argument that is not written with http:// or https:// in front
\* (another scheme, a host-relative path, a bare string) is not parsed as a
\* URL: it comes back unchanged when it is all decimal digits, and otherwise
\* the call throws the 'must be numeric' SentryError, not the malformed-URL
\* nor the path-shape one. The empty argument, which is refused before the
\* test of the prefix (C7), is not among them.
C26_OtherInputIsLiteral ==
    (IdDone /\ idIn.kind # "url" /\ issueIdOrUrl # <<>>) =>
        IF DecimalOnly(issueIdOrUrl)
        THEN idResult = Return(issueIdOrUrl)
        ELSE /\ Threw(idResult)
             /\ idResult.err = NotNumericMsg
             /\ idResult.err \notin {InvalidUrlMsg, InvalidIssueUrlMsg}

\* ftp://h/issues/5 was refused as not numeric.
C26_Witness ==
    /\ IdDone /\ idIn.kind = "other" /\ idIn.origin = OriginFtp
    /\ idIn.segs = <<S_issues, <<"5">>>>
    /\ Threw(idResult) /\ idResult.err = NotNumericMsg

SecondToLastIsIssues(segments) ==
    Len(segments) >= 2 /\ segments[Len(segments) - 1] = S_issues

\* C10: an http:// or https:// URL whose second-to-last non-empty path segment
\* is not "issues" (fewer than two segments, or segments after the id) makes
\* extractIssueId throw a SentryError; no identifier is returned.
C10_NotIssueUrlThrows ==
    (IdDone /\ idIn.kind = "url" /\ ~SecondToLastIsIssues(PathSegments(idIn))) =>
        Threw(idResult) /\ idResult.val = <<>>

\* /issues/5/x: a segment follows the identifier.
C10_Witness ==
    /\ IdDone /\ idIn.kind = "url" /\ idIn.origin.valid
    /\ idIn.segs = <<S_issues, <<"5">>, <<"x">>>>
    /\ Threw(idResult) /\ idResult.err = InvalidIssueUrlMsg

----------------------------------------------------------------------------
(* Claims about extractIssuesApiUrl, under SpecUrl. *)

UrlDone == urlPc \in {"once", "twice"}

\* The non-empty path segments of the input (no input of SpecUrl has dots).
InSegs == SelectSeq(urlIn.segs, NonEmptyString)

\* The segment after the first segment equal to tok, null when there is none.
SegmentAfter(segs, tok) ==
    IF \E i \in 1..(Len(segs) - 1) : segs[i] = tok /\ \A j \in 1..(i - 1) : segs[j] # tok
    THEN segs[(CHOOSE i \in 1..(Len(segs) - 1) :
                  segs[i] = tok /\ \A j \in 1..(i - 1) : segs[j] # tok) + 1]
    ELSE Null

HasParam(name) == \E i \in 1..Len(urlIn.params) : urlIn.params[i].name = name

\* The value of the input's first parameter of that name, null when it has none.
InParam(name) ==
    IF HasParam(name)
    THEN urlIn.params[CHOOSE i \in 1..Len(urlIn.params) :
                         /\ urlIn.params[i].name = name
                         /\ \A j \in 1..(i - 1) : urlIn.params[j].name # name].value
    ELSE Null

InOrganization == SegmentAfter(InSegs, S_organizations)

\* The project the input names: its project parameter when that has a value,
\* else the segment after "projects".
InProject ==
    IF Truthy(InParam(S_project)) THEN InParam(S_project)
    ELSE SegmentAfter(InSegs, S_projects)

\* The URL that was returned, and its query parameters.
Out == NewURL(urlResult.val)
OutParams == searchParams(Out)

\* C2: extractIssuesApiUrl of what extractIssuesApiUrl returned succeeds and
\* returns the same URL.
C2_Idempotent ==
    (urlPc = "twice") => (urlResult.ok /\ urlResult2.ok /\ urlResult2.val = urlResult.val)

\* The second call ran on a URL whose query value needs escaping.
C2_Witness ==
    /\ urlPc = "twice"
    /\ urlIn.params = <<ParamQueryEsc, ParamProject7>>
    /\ urlIn.origin = OriginUserPort
    /\ urlResult2 = urlResult /\ urlResult.ok

\* C3: from an input naming an organization and a project the result is a URL
\* of the input's scheme and host, of path /api/0/organizations/{org}/issues/,
\* whose query keys are exactly project, limit, sort, statsPeriod and query,
\* with limit=5, sort=freq, statsPeriod=14d; no other key is carried over.
C3_CanonicalUrl ==
    (UrlDone /\ urlIn.kind = "url" /\ InOrganization # Null /\ InProject # Null) =>
        LET out == NewURL(urlResult.val)
            params == searchParams(out)
        IN  /\ urlResult.ok
            /\ out.ok
            /\ out.protocol = urlIn.origin.scheme \o <<":">>
            /\ out.host = urlIn.origin.host
            /\ out.pathname = S_apiOrganizations \o InOrganization \o S_issuesSlash
            /\ out.fragment = Null
            /\ Len(params) = 5
            /\ {params[i].name : i \in 1..Len(params)}
                   = {S_project, S_limit, S_sort, S_statsPeriod, S_query}
            /\ paramsGet(params, S_limit) = S_5
            /\ paramsGet(params, S_sort) = S_freq
            /\ paramsGet(params, S_statsPeriod) = S_14d

\* The input had its own limit and a key of its own.
C3_Witness ==
    /\ UrlDone /\ urlIn.kind = "url" /\ urlIn.segs = WebPath
    /\ urlIn.params = <<ParamLimit9, ParamOther>>
    /\ urlResult.ok /\ Len(OutParams) = 5
    /\ paramsGet(OutParams, S_limit) = S_5

\* C4, as claimed: the result's query is the input's query parameter whenever
\* the input has one, and the default exactly when it has none.
C4_QueryCopiedWhenPresent ==
    (UrlDone /\ urlIn.kind = "url" /\ urlResult.ok) =>
        /\ HasParam(S_query) => paramsGet(OutParams, S_query) = InParam(S_query)
        /\ (paramsGet(OutParams, S_query) = DefaultQuery) <=> ~HasParam(S_query)

\* C5, as claimed: the project is the project parameter whenever that is on
\* the URL, else the segment after "projects"; neither found is an error.
C5_ProjectParamWhenPresent ==
    (UrlDone /\ urlIn.kind = "url" /\ InOrganization # Null) =>
        LET claimed == IF HasParam(S_project) THEN InParam(S_project)
                       ELSE SegmentAfter(InSegs, S_projects)
        IN  /\ urlResult.ok => paramsGet(OutParams, S_project) = claimed
            /\ (~HasParam(S_project) /\ SegmentAfter(InSegs, S_projects) = Null)
                   => (Threw(urlResult) /\ urlResult.err = NoProjectMsg)

\* C5, amended: the project is the (first) project parameter when that has a
\* non-empty value, even if the path has /projects/{p}; else the segment
\* after the first "projects"; when neither gives one, the call throws
\* "Could not extract project ID from URL".
C5_ProjectParamWhenNonEmpty ==
    (UrlDone /\ urlIn.kind = "url" /\ InOrganization # Null) =>
        /\ InProject # Null =>
              (urlResult.ok /\ paramsGet(OutParams, S_project) = InProject)
        /\ InProject = Null => (Threw(urlResult) /\ urlResult.err = NoProjectMsg)

\* The parameter and the path name different projects: the parameter wins.
C5_Witness ==
    /\ UrlDone /\ urlIn.kind = "url" /\ urlIn.segs = WebPath
    /\ urlIn.params = <<ParamProject7>>
    /\ urlResult.ok /\ paramsGet(OutParams, S_project) = <<"7">>

\* C6: the organization is the segment after the first "organizations"; with
\* no such segment, or with it last, the call throws "Could not extract
\* organization from URL", also when the project is missing too.
C6_Organization ==
    (UrlDone /\ urlIn.kind = "url") =>
        /\ (InOrganization # Null /\ urlResult.ok) =>
              Out.pathname = S_apiOrganizations \o InOrganization \o S_issuesSlash
        /\ InOrganization # Null => urlResult.err # NoOrganizationMsg
        /\ InOrganization = Null =>
              (Threw(urlResult) /\ urlResult.err = NoOrganizationMsg)

\* "organizations" is the last segment and there is no project either.
C6_Witness ==
    /\ UrlDone /\ urlIn.kind = "url"
    /\ urlIn.segs = <<<<"o">>, S_organizations>> /\ urlIn.params = <<>>
    /\ InProject = Null
    /\ urlResult.err = NoOrganizationMsg

----------------------------------------------------------------------------
(* Claims about createStacktrace, under SpecTrace. *)

TraceDone == tracePc = "done"

\* The exception values of the exception entries of the event, in input order.
ExceptionValues(event) ==
    Flatten([i \in 1..Len(event.entries) |->
                IF event.entries[i].type = "exception"
                THEN event.entries[i].data.values ELSE <<>>])

HasExceptionEntry(event) ==
    \E i \in 1..Len(event.entries) : event.entries[i].type = "exception"

\* C17, as the spec states it: createStacktrace returns the sentinel "No
\* stacktrace found" when the event has no entry of type exception, and a
\* text other than the sentinel when it has at least one.
C17_SentinelIffNoExceptionEntry ==
    TraceDone =>
        ((stacktrace = NoStacktraceFound) <=> ~HasExceptionEntry(latestEvent))

\* C17, amended: createStacktrace returns the sentinel exactly when no
\* exception entry of the event has an exception value (no entries, entries
\* of other types only, or exception entries whose values are empty), and
\* otherwise a text that starts with "Exception: ".
C17_SentinelIffNoExceptionValue ==
    TraceDone =>
        /\ (stacktrace = NoStacktraceFound) <=> (ExceptionValues(latestEvent) = <<>>)
        /\ (ExceptionValues(latestEvent) # <<>>) => stacktrace[1] = "Exception: "

\* An exception entry without values, next to a breadcrumbs entry with
\* values: the sentinel is returned.
C17_Witness ==
    /\ TraceDone
    /\ HasExceptionEntry(latestEvent)
    /\ \E i \in 1..Len(latestEvent.entries) :
            /\ latestEvent.entries[i].type = "breadcrumbs"
            /\ Len(latestEvent.entries[i].data.values) > 0
    /\ ExceptionValues(latestEvent) = <<>>
    /\ stacktrace = NoStacktraceFound

\* The text the claim describes, with sep between line number and function.
ExpectedFrame(frame, sep) ==
    <<IF frame.filename = "" THEN "Unknown" ELSE frame.filename, ":",
      IF frame.lineNo = 0 THEN "?" ELSE ToString(frame.lineNo), sep,
      IF frame.function = "" THEN "Unknown" ELSE frame.function, "\n">>
    \o Flatten([i \in 1..Len(frame.context) |->
                    <<"    ", frame.context[i][2], "\n">>])
    \o <<"\n">>

ExpectedException(e, sep) ==
    <<"Exception: ", IF e.type = "" THEN "Unknown" ELSE e.type, ": ", e.value, "\n\n">>
    \o IF e.stacktrace.present
       THEN <<"Stacktrace:\n">>
            \o Flatten([i \in 1..Len(e.stacktrace.frames) |->
                            ExpectedFrame(e.stacktrace.frames[i], sep)])
       ELSE <<>>

ExpectedText(event, sep) ==
    LET values == ExceptionValues(event)
    IN  Flatten([i \in 1..Len(values) |->
                    ExpectedException(values[i], sep)
                    \o IF i < Len(values) THEN <<"\n">> ELSE <<>>])

\* C18, as the spec states it: for each exception value of each exception
\* entry, in input order, the text has the header "Exception: {type}:
\* {value}" and then, when a stacktrace is present, per frame in frame order
\* the line "{filename}:{lineNo}:{function}" followed by the frame's context
\* lines indented.
C18_FrameLineColons ==
    (TraceDone /\ ExceptionValues(latestEvent) # <<>>) =>
        stacktrace = ExpectedText(latestEvent, ":")

\* C18, amended: the line of a frame is "{filename}:{lineNo} in {function}",
\* where an absent filename or function reads "Unknown" and an absent line
\* number "?"; a stacktrace starts with the line "Stacktrace:", every frame
\* ends with an empty line, and the exceptions are joined by a line break.
C18_FrameLineIn ==
    (TraceDone /\ ExceptionValues(latestEvent) # <<>>) =>
        stacktrace = ExpectedText(latestEvent, " in ")

\* Two exception entries, three exception values, frames with and without
\* source context.
C18_Witness ==
    /\ TraceDone
    /\ latestEvent.entries = <<Entry("exception", <<ExceptionBare, ExceptionFull>>),
                               Entry("message", <<>>),
                               Entry("exception", <<ExceptionTest>>)>>
    /\ Len(stacktrace) > 40

----------------------------------------------------------------------------
(* Claims about the envelopes, under SpecEnvelope. *)

\* C19: the prompt envelope of a SentryIssueData is one user-role text
\* message and its tool envelope one text content block; the text of both is
\* the string toText returns, so the two carry the same text; the tool
\* envelope of a list is one text content block with the list's toText.
C19_SameText ==
    /\ (envPrompt # NoResult) =>
            /\ Len(envPrompt.messages) = 1
            /\ envPrompt.messages[1].role = "user"
            /\ envPrompt.messages[1].content.type = "text"
            /\ envPrompt.messages[1].content.text = toText(envIssue)
    /\ (envTool # NoToolResult) =>
            /\ Len(envTool) = 1
            /\ envTool[1].type = "text"
            /\ envTool[1].text = toText(envIssue)
    /\ (envPrompt # NoResult /\ envTool # NoToolResult) =>
            envPrompt.messages[1].content.text = envTool[1].text
    /\ (envListTool # NoToolResult) =>
            /\ Len(envListTool) = 1
            /\ envListTool[1].type = "text"
            /\ envListTool[1].text = toTextList(envIssues)

\* All three envelopes were asked for, of an issue with a stacktrace and of
\* a list of two issues.
C19_Witness ==
    /\ envPrompt # NoResult /\ envTool # NoToolResult /\ envListTool # NoToolResult
    /\ envIssue.stacktrace # NoStacktraceFound
    /\ Len(envIssues) = 2
    /\ envPrompt.messages[1].content.text = envTool[1].text

----------------------------------------------------------------------------
(* Claims about the handlers, under SpecRequest. *)

ReqFailed == req.pc = "failed"
ReqResponded == req.pc = "responded"
IsIssueRequest == req.name \in IssueNames
IsListRequest == req.name \in ListNames

\* The last response the request received was a 401.
Got401 ==
    /\ Len(req.responses) > 0
    /\ req.responses[Len(req.responses)].status = Unauthorized

ResponseText ==
    IF req.response.kind = "prompt"
    THEN req.response.result.messages[1].content.text
    ELSE req.response.content[1].text

\* C11: a 401 from the upstream, on the issue GET, the hashes GET or the
\* list GET, fails the request with the same fixed message, "Error:
\* Unauthorized. Please check your SENTRY_TOKEN.".
C11_SameUnauthorizedMessage ==
    Got401 => (ReqFailed /\ req.error.message = <<UnauthorizedMsg>>)

\* The body of the hashes response is absent or an empty list.
HashesEmptyOrAbsent ==
    /\ IsIssueRequest
    /\ Len(req.responses) = 2
    /\ req.responses[2].status = OK
    /\ \/ req.responses[2].data.kind = "null"
       \/ req.responses[2].data.kind = "array" /\ req.responses[2].data.items = <<>>

\* C12: when the hashes call of the single-issue path returns an empty or
\* absent list, the request fails with an error whose message has "No Sentry
\* events found for this issue", and createStacktrace, the SentryIssueData
\* constructor and its formatters are not reached: nothing is returned.
C12_NoEventsFails ==
    HashesEmptyOrAbsent =>
        /\ ReqFailed
        /\ \E k \in 1..Len(req.error.message) : req.error.message[k] = NoEventsMsg
        /\ req.reached = {}
        /\ req.issue = NoIssueData
        /\ req.response = NoResponse

\* The issue GET succeeded and the hashes GET returned the empty array.
C12_Witness ==
    /\ HashesEmptyOrAbsent
    /\ req.responses[1].status = OK
    /\ req.responses[2].data.kind = "array"
    /\ ReqFailed

\* C13: what handleSentryIssuesList returns holds as many issues as the
\* upstream's array, at least one, in the upstream's order; a body that is no
\* array or an empty array fails the request; and the most-triggered-issue
\* prompt never answers "No issues were found in the list.".
C13_ReturnedListNonEmpty ==
    IsListRequest =>
        /\ (req.pc \in {"returned", "responded"}) =>
                LET body == req.responses[1].data
                IN  /\ body.kind = "array"
                    /\ Len(req.list) > 0
                    /\ Len(req.list) = Len(body.items)
                    /\ \A i \in 1..Len(req.list) : req.list[i].id = body.items[i].id
        /\ (/\ Len(req.responses) = 1
            /\ req.responses[1].status = OK
            /\ \/ req.responses[1].data.kind # "array"
               \/ req.responses[1].data.items = <<>>) => ReqFailed
        /\ (ReqResponded /\ req.name = "most-triggered-issue") =>
                ResponseText # NoIssuesText

\* The most-triggered-issue prompt answered on an upstream list of two.
C13_Witness ==
    /\ req.name = "most-triggered-issue"
    /\ ReqResponded
    /\ Len(req.list) = 2
    /\ req.list[1].userCount < req.list[2].userCount

\* The argument of the request is refused by its normalizer.
InvalidArgument ==
    IF IsIssueRequest THEN ~extractIssueId(req.arg).ok
    ELSE ~extractIssuesApiUrl(req.arg).ok

\* C14: a request whose identifier or URL is invalid fails with the
\* InvalidInput error (a SentryError) and issues no upstream call, at its
\* start or ever after.
C14_InvalidInputNoCall ==
    (req.pc # "start" /\ InvalidArgument) =>
        /\ ReqFailed
        /\ req.error.kind = "SentryError"
        /\ req.calls = <<>>
        /\ req.responses = <<>>

\* The issue GET succeeded; the hashes GET failed or returned no hash.
IssueWithoutHashes ==
    /\ IsIssueRequest
    /\ Len(req.responses) = 2
    /\ req.responses[1].status = OK
    /\ \/ req.responses[2].status # OK
       \/ req.responses[2].data.kind # "array"
       \/ req.responses[2].data.items = <<>>

\* C15: a request that has ended has either failed, and then returned
\* nothing, or responded with the full text: of the issue with its eight
\* fields, stacktrace included, or of the whole list. With the issue fetched
\* and no hash to be had, it fails, and the error carries no field of the
\* issue.
C15_CompleteOrFailure ==
    /\ ReqFailed =>
            /\ req.response = NoResponse
            /\ req.issue = NoIssueData
            /\ req.list = <<>>
    /\ (ReqResponded /\ IsIssueRequest) =>
            LET issueData == req.responses[1].data.fields
                event == req.responses[2].data.items[1].latestEvent
            IN  /\ req.error = NoError
                /\ ResponseText =
                      toText(SentryIssueData(issueData.title, req.issueId,
                                 issueData.status, issueData.level,
                                 issueData.firstSeen, issueData.lastSeen,
                                 issueData.count, createStacktrace(event)))
    /\ (ReqResponded /\ IsListRequest) =>
            /\ req.error = NoError
            /\ Len(req.list) = Len(req.responses[1].data.items)
            /\ req.name = "get_sentry_issues_list" => ResponseText = toTextList(req.list)
    /\ IssueWithoutHashes =>
            /\ ReqFailed
            /\ req.response = NoResponse
            /\ \A k \in 1..Len(req.error.message) :
                    req.error.message[k] \notin
                        {IssueFields.title, IssueFields.status, IssueFields.firstSeen,
                         IssueFields.lastSeen, IssueFields.count}

\* The issue was fetched with its fields, then the hashes GET failed.
C15_Witness ==
    /\ IssueWithoutHashes
    /\ req.responses[1].data = ObjectBody(IssueFields)
    /\ req.responses[2].status = ServerError
    /\ ReqFailed
    /\ req.response = NoResponse

----------------------------------------------------------------------------
(* Claims about the Express server, under SpecSse. *)

\* C20: a POST /messages that arrives while no event stream is open (none
\* was opened yet, the client of the only one has gone, or its connect
\* failed) is answered 400, and a POST is passed to a transport only while
\* the stream of that transport is open. A stream that is being opened
\* counts as open here.
C20_BadRequestUnlessOpen ==
    \A k \in 1..Len(posts) :
        /\ (posts[k].open = {}) => posts[k].status = BadRequest
        /\ (posts[k].status # BadRequest) => posts[k].to \in posts[k].open

\* The latest of a set of transports, in the order of construction.
Latest(open) == CHOOSE k \in open : \A j \in open : j <= k

\* A GET /sse has run up to its await.
SlotAssigned == Len(transports') = Len(transports) + 1

\* C25 as stated: the server keeps one slot; a GET /sse puts a new transport
\* in it and closes none; with two streams open every POST /messages is
\* handled by the transport of the stream opened last; a POST that arrives
\* while the connect of the latest GET /sse is pending is handed to that
\* transport and is not answered 400.
C25_LatestStreamHandlesPost ==
    /\ sseTransport \in {Undefined, Len(transports)}
    /\ \A k \in 1..Len(posts) :
          /\ Cardinality(posts[k].open) >= 2 =>
                /\ posts[k].status = Handled
                /\ posts[k].to = Latest(posts[k].open)
          /\ posts[k].made \in posts[k].awaiting =>
                /\ posts[k].status = Handled
                /\ posts[k].to = posts[k].made

\* C25 as amended: the server keeps one slot; a GET /sse puts a new
\* transport in it and closes none; a POST /messages is answered 400 exactly
\* when no GET /sse was made yet or a connect has failed since the latest
\* one, whatever streams are open; every other POST is handed to the
\* transport made last, whether or not its connect has completed and
\* whichever client sent it.
C25_SlotDecidesPost ==
    /\ [](\A k \in 1..Len(posts) :
            /\ posts[k].status \in {BadRequest, Handled}
            /\ posts[k].status = BadRequest <=>
                  (posts[k].made = 0 \/ posts[k].failed # {})
            /\ posts[k].status = Handled => posts[k].to = posts[k].made)
    /\ [][SlotAssigned =>
            /\ sseTransport' = Len(transports')
            /\ \A j \in 1..Len(transports) : transports'[j] = transports[j]]_vars

\* Two POSTs, each with two streams open: the first handed to a transport
\* whose connect was pending, the second answered 400 after the connect of
\* another stream had failed.
C25_Witness ==
    /\ Len(posts) = 2
    /\ posts[1].status = Handled
    /\ posts[1].to \in posts[1].awaiting
    /\ Cardinality(posts[1].open) >= 2
    /\ posts[2].status = BadRequest
    /\ Cardinality(posts[2].open) >= 2
    /\ posts[2].made \in posts[2].awaiting
    /\ posts[2].failed # {}

----------------------------------------------------------------------------
(* Claims about startExpressServer, under SpecStart and SpecStartFair. A   *)
(* bind conflict is a listen that failed with the code EADDRINUSE.         *)

StartEnded == start.pc \in {"returned", "threw"}

\* The start port p: options.port, or the default when that is absent.
FirstPort == IF start.port = 0 THEN DEFAULT_PORT ELSE start.port

BindConflict(k) == start.failures[k].code = "EADDRINUSE"

\* The attempts so far are on p, p+1, ... in that order, at most three, each
\* but the first made after a bind conflict of the one before.
AttemptsInOrder ==
    /\ Len(start.attempts) <= 3
    /\ \A k \in 1..Len(start.attempts) : start.attempts[k] = FirstPort + k - 1
    /\ \A k \in 2..Len(start.attempts) : k - 1 <= Len(start.failures) /\ BindConflict(k - 1)

\* The call returns exactly when an attempt has succeeded, and then it
\* listens on the port of its last attempt, which is the only one that did
\* not fail.
ReturnsOnSuccess ==
    /\ (start.pc = "returned") <=> (start.listening # 0)
    /\ (start.pc = "returned") =>
          /\ start.attempts # <<>>
          /\ start.listening = start.attempts[Len(start.attempts)]
          /\ Len(start.failures) = Len(start.attempts) - 1

\* After a third bind conflict in a row the call has thrown an Error that
\* names p+2 as the last attempted port.
ThirdConflictFails ==
    (Len(start.failures) = 3 /\ \A k \in 1..3 : BindConflict(k)) =>
        /\ start.pc = "threw"
        /\ start.error.kind = "Error"
        /\ includes(start.error.message,
                    <<"Last attempted port: ", Str(FirstPort + 2), ". Error: ">>)

\* C21: at most 3 listen attempts, on p, p+1, p+2 in that order, advancing
\* only after a bind conflict; the call returns as soon as an attempt
\* succeeds; a third bind conflict in a row makes it fail with an error
\* naming p+2; and every call ends.
C21_ThreeAttempts ==
    /\ [](AttemptsInOrder /\ ReturnsOnSuccess /\ ThirdConflictFails)
    /\ <>StartEnded

\* Three bind conflicts from the default port on.
C21_Witness ==
    /\ start.port = 0
    /\ start.attempts = <<DEFAULT_PORT, DEFAULT_PORT + 1, DEFAULT_PORT + 2>>
    /\ Len(start.failures) = 3 /\ \A k \in 1..3 : BindConflict(k)
    /\ start.pc = "threw"

\* C30: a listen error that is not a bind conflict is thrown as it is after
\* the attempt that gave it, on the first, the second or the third attempt:
\* it is the last failure, no attempt follows it and the port stays.
C30_OtherErrorRethrown ==
    \A k \in 1..Len(start.failures) :
        ~BindConflict(k) =>
            /\ k = Len(start.failures)
            /\ Len(start.attempts) = k
            /\ start.currentPort = start.attempts[k]
            /\ start.pc = "threw"
            /\ start.error = start.failures[k].error

\* EACCES on the third attempt, after two bind conflicts.
C30_Witness ==
    /\ Len(start.failures) = 3
    /\ BindConflict(1) /\ BindConflict(2)
    /\ start.failures[3].code = "EACCES"
    /\ start.pc = "threw" /\ start.error = start.failures[3].error
    /\ start.currentPort = FirstPort + 2

----------------------------------------------------------------------------
(* Claims about runCommand, under SpecCommand. *)

\* Neither the flag nor the environment gives a token: each is absent or
\* the empty string.
NoTokenSupplied == ~Truthy(cmd.t) /\ ~Truthy(cmd.SENTRY_TOKEN)

\* C22: without a token by flag or environment the process writes the
\* missing-token message to standard error and exits with a non-zero status,
\* and no server or transport was made or started before that exit.
C22_NoTokenExitsBeforeServer ==
    NoTokenSupplied =>
        /\ cmd.servers = <<>>
        /\ cmd.pc \in {"start", "exited"}
        /\ (cmd.pc = "exited") =>
              /\ cmd.exited /\ cmd.exitCode # 0
              /\ cmd.stderr = <<MISSING_AUTH_TOKEN_MESSAGE>>

\* --sse with an empty flag and no variable: the process has exited.
C22_Witness ==
    /\ cmd.t = <<>> /\ cmd.SENTRY_TOKEN = Null /\ cmd.sse
    /\ cmd.exited /\ cmd.exitCode = 1
    /\ cmd.stderr = <<MISSING_AUTH_TOKEN_MESSAGE>>
    /\ cmd.servers = <<>>

----------------------------------------------------------------------------
(* Claims about the upstream calls of a request, under SpecRequest. *)

ReqSucceeded == req.pc \in {"returned", "responded"}

\* The identifier the valid arguments of the issue requests stand for.
ArgId == IF req.arg = <<"0", "7">> THEN <<"0", "7">> ELSE <<"5">>

\* Every GET but the last has been answered before the next was issued.
OneAtATime ==
    /\ Len(req.responses) <= Len(req.calls)
    /\ Len(req.calls) <= Len(req.responses) + 1

NoRepeatedCall ==
    \A i, j \in 1..Len(req.calls) : i # j => req.calls[i] # req.calls[j]

\* C23: a single-issue request that succeeds has issued exactly two GETs,
\* issues/{id}/ and then issues/{id}/hashes/, the second only after the first
\* was answered with success; a list request that succeeds has issued exactly
\* one GET and none issues more; no call is repeated; after a failed issue
\* GET there is no hashes GET.
C23_CallsInSequence ==
    /\ OneAtATime /\ NoRepeatedCall
    /\ IsIssueRequest =>
          /\ Len(req.calls) <= 2
          /\ Len(req.calls) >= 1 => req.calls[1] = <<"issues/">> \o ArgId \o <<"/">>
          /\ Len(req.calls) = 2 =>
                /\ req.calls[2] = <<"issues/">> \o ArgId \o <<"/hashes/">>
                /\ req.responses[1].status = OK
          /\ (Len(req.responses) >= 1 /\ req.responses[1].status # OK) =>
                (Len(req.calls) = 1 /\ ReqFailed)
          /\ ReqSucceeded => (Len(req.calls) = 2 /\ Len(req.responses) = 2)
    /\ IsListRequest =>
          /\ Len(req.calls) <= 1
          /\ ReqSucceeded => (Len(req.calls) = 1 /\ Len(req.responses) = 1)
          /\ (~InvalidArgument /\ req.pc # "start") => Len(req.calls) = 1

\* A tool request for issue 07 has been answered after its two GETs.
C23_Witness ==
    /\ req.name = "get_sentry_issue" /\ req.arg = <<"0", "7">>
    /\ ReqResponded
    /\ req.calls = <<<<"issues/", "0", "7", "/">>, <<"issues/", "0", "7", "/hashes/">>>>
    /\ Len(req.responses) = 2

----------------------------------------------------------------------------
(* Claims about requests in flight at once, under SpecConcurrent. *)

\* The record of a request that is alone: its handler, then its own
\* responses one after the other.
RECURSIVE AloneFrom(_, _, _)
AloneFrom(r, responses, k) ==
    IF k > Len(responses) THEN r
    ELSE AloneFrom(continue(r, responses[k]), responses, k + 1)

Alone(r) ==
    IF r.pc = "responded"
    THEN respond(AloneFrom(handler(NewRequest(r.name, r.arg)), r.responses, 1))
    ELSE AloneFrom(handler(NewRequest(r.name, r.arg)), r.responses, 1)

\* C24: whatever the order in which the calls and the responses of the
\* requests in flight are interleaved, each request is where it would be,
\* with the calls, the result and the response it would have, had it been
\* alone with its own argument and the responses to its own calls; what the
\* requests share, the closure of createServer, is never written.
C24_IndependentRequests ==
    /\ reqs.closure = Closure
    /\ \A i \in 1..Len(reqs.calls) : reqs.calls[i] = Alone(reqs.calls[i])

\* The request for issue 5 was answered while the one for issue 7, called
\* after it, awaits its hashes.
C24_Witness ==
    /\ Len(reqs.calls) = 2
    /\ reqs.calls[1].pc = "responded" /\ reqs.calls[1].issue.issueId = <<"5">>
    /\ reqs.calls[1].calls[2] = <<"issues/", "5", "/hashes/">>
    /\ reqs.calls[2].pc = "awaitHashes" /\ reqs.calls[2].issueId = <<"7">>

----------------------------------------------------------------------------
(* Claims about the counts of the list items, under SpecRequest. *)

\* The field is written as an integer: an optional sign and decimal digits.
WrittenInteger(s) ==
    \/ DecimalOnly(s)
    \/ Len(s) >= 2 /\ s[1] \in {"-", "+"} /\ DecimalOnly(Tail(s))

\* The integer a field written as one stands for.
IntegerOf(s) ==
    IF s[1] = "-" THEN 0 - decimal(Tail(s), 0)
    ELSE IF s[1] = "+" THEN decimal(Tail(s), 0)
    ELSE decimal(s, 0)

\* What the claim has for one field: its integer, or 0 when it has no
\* integer at its start.
CountAsClaimed(raw, n) ==
    /\ n \in Nat
    /\ WrittenInteger(raw) => n = IntegerOf(raw)
    /\ parseInt(raw).nan => n = 0

\* C27: in every item of a list that handleSentryIssuesList returned,
\* userCount and count are non-negative integers: the integer the upstream
\* field stands for when it parses, 0 when it does not, whatever the
\* upstream gave.
C27_CountsNonNegative ==
    (IsListRequest /\ ReqSucceeded) =>
        \A i \in 1..Len(req.list) :
            /\ CountAsClaimed(req.responses[1].data.items[i].userCount,
                              req.list[i].userCount)
            /\ CountAsClaimed(req.responses[1].data.items[i].count,
                              req.list[i].count)

----------------------------------------------------------------------------
(* Claims about the failures of the upstream that are no 401, under        *)
(* SpecRequest.                                                            *)

LastResponse == req.responses[Len(req.responses)]

\* The body is no list, or a list of nothing.
EmptyOrInvalid(body) == body.kind # "array" \/ body.items = <<>>

\* The last answer of the upstream is a failure other than a 401: another
\* status, no answer at all, or a 200 whose list (the hashes of the issue,
\* the issues of the project) is empty or is no list.
UpstreamFailure ==
    /\ Len(req.responses) > 0
    /\ \/ LastResponse.status \notin {OK, Unauthorized}
       \/ /\ LastResponse.status = OK
          /\ IsListRequest \/ Len(req.responses) = 2
          /\ EmptyOrInvalid(LastResponse.data)

\* The message of the error that failure is, before any catch.
OriginalMessage ==
    IF LastResponse.status = NoStatus THEN <<"Network Error">>
    ELSE IF LastResponse.status # OK
    THEN <<"Request failed with status code ", Str(LastResponse.status)>>
    ELSE IF IsListRequest THEN <<NoIssuesMsg>>
    ELSE IF LastResponse.data.kind \in {"null", "array"} THEN <<NoEventsMsg>>
    ELSE <<"Cannot read properties of undefined (reading 'latestEvent')">>

OperationPrefix == IF IsIssueRequest THEN IssuePrefix ELSE ListPrefix

PrefixCount(message) ==
    Cardinality({k \in 1..Len(message) : message[k] \in {IssuePrefix, ListPrefix}})

\* C28: an upstream failure other than a 401 fails the request with an
\* Error whose message is the prefix of the operation ("Error fetching
\* Sentry issue: ", "Error fetching Sentry issues list: ") and then the
\* message of the original error as it was; every failure after an upstream
\* answer that was no 401 has the prefix of its operation in front and no
\* prefix anywhere else.
C28_OtherFailurePrefixedOnce ==
    /\ UpstreamFailure =>
          /\ ReqFailed
          /\ req.error = Error(<<OperationPrefix>> \o OriginalMessage)
    /\ (ReqFailed /\ Len(req.responses) > 0 /\ ~Got401) =>
          /\ req.error.message[1] = OperationPrefix
          /\ PrefixCount(req.error.message) = 1

\* The issue GET succeeded and the hashes GET was answered 500.
C28_Witness ==
    /\ IsIssueRequest
    /\ Len(req.responses) = 2
    /\ req.responses[1].status = OK
    /\ req.responses[2].status = ServerError
    /\ ReqFailed
    /\ req.error.message =
          <<IssuePrefix, "Request failed with status code ", "500">>

----------------------------------------------------------------------------
(* Claims about what becomes of the SentryError of a normalizer, under     *)
(* SpecRequest.                                                            *)

\* C29: the two paths treat the SentryError of their normalizer differently.
\* In the single-issue path the SentryError that extractIssueId threw is
\* what the request fails with: a SentryError, its message as it was, no
\* prefix. In the list path the SentryError that extractIssuesApiUrl threw
\* is replaced by a plain Error whose message is "Error fetching Sentry
\* issues list: " and then the original message: the kind is lost.
C29_SentryErrorKeptOrReplaced ==
    (req.pc # "start" /\ InvalidArgument) =>
        /\ ReqFailed
        /\ IsIssueRequest =>
              /\ req.error.kind = "SentryError"
              /\ req.error.message = <<extractIssueId(req.arg).err>>
              /\ PrefixCount(req.error.message) = 0
        /\ IsListRequest =>
              /\ req.error.kind = "Error"
              /\ req.error.message = <<ListPrefix, extractIssuesApiUrl(req.arg).err>>

\* A list request with a URL that extractIssuesApiUrl refuses has failed
\* with a plain Error.
C29_Witness ==
    /\ IsListRequest
    /\ ~extractIssuesApiUrl(req.arg).ok
    /\ req.arg # <<>>
    /\ ReqFailed
    /\ req.error.kind = "Error"
    /\ req.error.message[1] = ListPrefix
    /\ req.calls = <<>>

====
